---- MODULE Spec2Model ----
(***************************************************************************)
(* Model of the cortexd runtime kernel: the alert store (AlertManager),    *)
(* the threshold engine (SystemMonitor::check_thresholds), the control     *)
(* server (IPCServer) and its RateLimiter.                                 *)
(***************************************************************************)
EXTENDS Integers, Sequences, FiniteSets, TLC

(***************************************************************************)
(* Bounds                                                                  *)
(***************************************************************************)
\* rows the alerts table can hold before every further INSERT fails
MaxAlerts == 3
\* snapshots recorded by the disk scenario history
MaxHist == 6
\* rows in the table beyond which the callers of the store create no more
MaxRows == 2
\* requests per second the rate limiter is constructed with
MaxPerSecond == 2
\* last instant of the clock, in milliseconds
MaxNow == 2000
\* connections the clients open
MaxConns == 3
\* times the server is started
MaxStarts == 2
\* inference requests the callers make
MaxRequests == 3
\* max_inference_queue of the configuration
MaxInferenceQueue == 2
\* times the LLM engine is started
MaxLlmStarts == 1
MaxListRows == 2
MaxServices == 3
\* calls of check_health
MaxChecks == 3
MaxPings == 2

(***************************************************************************)
(* Program constants                                                       *)
(***************************************************************************)
CpuWarning == 80
CpuCritical == 95
MemoryWarning == 80
MemoryCritical == 95
DiskWarning == 80
DiskCritical == 95
PARSE_ERROR == -32700
METHOD_NOT_FOUND == -32601
INTERNAL_ERROR == -32603
RATE_LIMITED == 102
\* length of the rate limiter's window, in milliseconds
WindowMs == 1000
\* step of the clock, in milliseconds
ClockStep == 500

\* usage percentages a snapshot can carry (one below the warning threshold,
\* one exactly on it, one above the critical threshold)
Percents == {50, 80, 97}
FailedCounts == {0, 2}

Healths == [cpu : Percents, mem : Percents, disk : Percents, failed : FailedCounts]
NoHealth == [cpu |-> 0, mem |-> 0, disk |-> 0, failed |-> 0]
\* snapshots in which the memory reading stays below its thresholds
MonHealths == {h \in Healths : h.mem = 50}
\* snapshots in which the CPU reading stays below its thresholds and the
\* memory reading is below or above both of its thresholds
LevelHealths == {h \in Healths : h.cpu = 50 /\ h.mem # 80}
\* snapshots in which only the disk reading varies
DiskHealths == {h \in Healths : h.cpu = 50 /\ h.mem = 50 /\ h.failed = 0}

Severities == {"INFO", "WARNING", "ERROR", "CRITICAL"}
Statuses == {"ACTIVE", "ACKNOWLEDGED", "DISMISSED"}
CatOrder == <<"CPU", "MEMORY", "DISK", "SERVICE">>
ThresholdCats == {"CPU", "MEMORY", "DISK"}

\* threads of the process: two monitor ticks, two callers of the alert store
MonThreads == {"m1", "m2"}
StoreThreads == {"c1", "c2"}
Threads == MonThreads \cup StoreThreads

VARIABLES
    alerts,             \* rows of the alerts table, in insertion order
    count,              \* count_info_ .. count_total_
    stmt_mutex,         \* holder of AlertManager::stmt_mutex_, or "free"
    active_alert_keys,  \* SystemMonitor::active_alert_keys_
    pc,                 \* position of every thread
    loc,                \* locals of every thread
    started,            \* threads that have begun a tick
    createCalls,        \* <<thread, key>> for which create_alert was called
    createOk,           \* <<thread, key>> for which create_alert returned a row
    createFailed,       \* some create_alert call has returned nullopt
    mode,               \* which history the run records: "mon", "s2" or "ticks"
    hist,               \* per completed tick: disk band and severities created
    now,                \* steady clock, in milliseconds
    rl_count,           \* RateLimiter::count_
    window_start,       \* RateLimiter::window_start_
    admitted,           \* per admitted request: its instant and its window
    running,            \* IPCServer::running_
    server_fd,          \* listening socket: "closed", "open" or "shutdown"
    socket_file,        \* the socket file exists
    active_connections, \* IPCServer::active_connections_
    connections_served, \* IPCServer::connections_served_
    apc,                \* position of the accept thread
    ctl,                \* position of the thread that starts and stops the server
    conn,               \* the connection last accepted, and what became of it
    srv                 \* history of the server

VARIABLES
    llm_running,        \* LLMEngine::running_
    backend_loaded,     \* LlamaBackend holds a model: backend_->is_loaded()
    llm_mutex,          \* holder of LLMEngine::mutex_, or "free"
    queue_mutex,        \* holder of LLMEngine::queue_mutex_, or "free"
    request_queue,      \* LLMEngine::request_queue_: ids of the queued requests
    requests_this_second, \* LLMEngine::requests_this_second_
    rate_limit_window,  \* LLMEngine::rate_limit_window_
    lpc,                \* position of the worker and of the engine's callers
    lreq,               \* request each of them is working on
    results,            \* per request made: "pending", "generated" (the result
                        \* generate returned) or the error it completed with
    lh                  \* history of the engine

llmVars == <<llm_running, backend_loaded, llm_mutex, queue_mutex, request_queue,
             requests_this_second, rate_limit_window, lpc, lreq, results, lh>>

\* the worker thread, a thread that submits requests and the thread that
\* starts, loads, unloads and stops the engine
LlmThreads == {"worker", "caller", "main"}

\* LLMEngine::LLMEngine()
LlmInit ==
    /\ llm_running = FALSE
    /\ backend_loaded = FALSE
    /\ llm_mutex = "free"
    /\ queue_mutex = "free"
    /\ request_queue = <<>>
    /\ requests_this_second = 0
    /\ rate_limit_window = 0
    /\ lpc = [t \in LlmThreads |-> IF t = "worker" THEN "none" ELSE "idle"]
    /\ lreq = [t \in LlmThreads |-> [id |-> 0, result |-> "pending"]]
    /\ results = <<>>
    /\ lh = [unloaded |-> FALSE, starts |-> 0, atStop |-> {}, admitted |-> {},
             pushed |-> <<>>, popped |-> <<>>]

VARIABLES
    config_,            \* ConfigManager::config_
    config_path_,       \* ConfigManager::config_path_
    cfg_mutex,          \* holder of ConfigManager::mutex_, or "free"
    cfg_file,           \* what the configuration file holds
    get_by_ref,         \* get() returns const Config& (config.cpp) or Config (config.h)
    cpc,                \* position of the thread that loads and of the reader
    cloc,               \* their locals
    ch                  \* history of the configuration store

cfgVars == <<config_, config_path_, cfg_mutex, cfg_file, get_by_ref, cpc, cloc, ch>>

\* Config{}: the member initialisers
\* (thresholds in hundredths; common.h is not part of the sources, its
\* constants have the values the tests expect where the tests name them)
ConfigDefaults ==
    [socket_backlog |-> 16, socket_timeout_ms |-> 5000,
     llm_context_length |-> 2048, llm_threads |-> 4,
     monitor_interval_sec |-> 300,
     disk_warn_threshold |-> 80, disk_crit_threshold |-> 95,
     mem_warn_threshold |-> 80, mem_crit_threshold |-> 95,
     max_requests_per_sec |-> 100, log_level |-> 1]

CfgThreads == {"loader", "reader"}

NoCfgLoc == [loaded |-> ConfigDefaults, ok |-> FALSE, snap |-> ConfigDefaults,
             path |-> "", op |-> "none", caller |-> "none", had |-> FALSE,
             error |-> ""]

\* the record of the last call that returned
NoCfgCall == [op |-> "none", ok |-> FALSE, loaded |-> FALSE,
              before |-> ConfigDefaults, had |-> FALSE, file |-> ConfigDefaults,
              kind |-> "missing", caller |-> "none"]

NoDaemonCall == [op |-> "none", ok |-> FALSE, level |-> "INFO"]

\* the Config objects the tests of validate() build: the defaults with some
\* members changed (thresholds in hundredths)
ValidateInputs ==
    [socket_backlog : {-1, 0, 16}, socket_timeout_ms : {0, 5000},
     llm_context_length : {0, 2048}, llm_threads : {0, 4},
     monitor_interval_sec : {0, 300},
     disk_warn_threshold : {0, 80, 95}, disk_crit_threshold : {80, 95, 101},
     mem_warn_threshold : {80}, mem_crit_threshold : {95, 101},
     max_requests_per_sec : {0, 100}, log_level : {-1, 0, 1, 2, 3, 4, 5}]

\* the ConfigManager singleton before any load
CfgInit ==
    /\ config_ = ConfigDefaults
    /\ config_path_ = ""
    /\ cfg_mutex = "free"
    /\ cfg_file = [kind |-> "missing", llm_threads |-> 0, has_log_level |-> FALSE,
                   log_level |-> 0]
    /\ get_by_ref \in (IF mode = "config" THEN BOOLEAN ELSE {TRUE})
    /\ cpc = [t \in CfgThreads |-> "idle"]
    /\ \E c \in (IF mode = "validate" THEN ValidateInputs ELSE {ConfigDefaults}) :
         cloc = [t \in CfgThreads |->
                   IF t = "loader" THEN [NoCfgLoc EXCEPT !.loaded = c] ELSE NoCfgLoc]
    /\ ch = [installed |-> {ConfigDefaults}, last |-> NoCfgCall,
             daemon |-> NoDaemonCall]

\* the daemon (Daemon) and its services
VARIABLES
    services_, svc_running, running_, shutdown_requested_, dpc, dloc, dlog,
    run_result, g_shutdown_requested

daemonVars == <<services_, svc_running, running_, shutdown_requested_, dpc, dloc,
                dlog, run_result, g_shutdown_requested>>

NoDaemonLoc == [service_ptrs |-> <<>>, i |-> 0, failed |-> FALSE]

DaemonInit ==
    /\ services_ = <<>>
    /\ svc_running = {}
    /\ running_ = FALSE
    /\ shutdown_requested_ = FALSE
    /\ dpc = "idle"
    /\ dloc = NoDaemonLoc
    /\ dlog = <<>>
    /\ run_result = -1
    /\ g_shutdown_requested = FALSE

\* the readings of the monitor (SystemMonitor::check_health)
VARIABLES
    cpu_first_call_,    \* SystemMonitor::cpu_first_call_
    last_cpu_idle_,     \* SystemMonitor::last_cpu_idle_
    last_cpu_total_,    \* SystemMonitor::last_cpu_total_
    last_cpu_time_,     \* SystemMonitor::last_cpu_time_, in milliseconds
    health              \* the SystemHealth check_health() returned last, and
                        \* what get_cpu_usage found when it made it

usageVars == <<cpu_first_call_, last_cpu_idle_, last_cpu_total_, last_cpu_time_,
               health>>

NoSample == [calls |-> 0, cpu_usage_percent |-> 0, memory_usage_percent |-> 0,
             first |-> FALSE, elapsed |-> 0]

\* SystemMonitor::SystemMonitor(): last_cpu_time_ is the instant of
\* construction
UsageInit ==
    /\ cpu_first_call_ = TRUE
    /\ last_cpu_idle_ = 0
    /\ last_cpu_total_ = 0
    /\ last_cpu_time_ = 0
    /\ health = NoSample

extVars == <<llmVars, cfgVars, daemonVars, usageVars>>

rlVars == <<now, rl_count, window_start, admitted>>
srvVars == <<running, server_fd, socket_file, active_connections,
             connections_served, apc, ctl, conn, srv>>
coreVars == <<alerts, count, stmt_mutex, active_alert_keys, pc, loc, started,
              createCalls, createOk, createFailed, mode, hist, extVars>>

vars == <<alerts, count, stmt_mutex, active_alert_keys, pc, loc, started,
          createCalls, createOk, createFailed, mode, hist,
          now, rl_count, window_start, admitted,
          running, server_fd, socket_file, active_connections,
          connections_served, apc, ctl, conn, srv,
          llm_running, backend_loaded, llm_mutex, queue_mutex, request_queue,
          requests_this_second, rate_limit_window, lpc, lreq, results, lh,
          config_, config_path_, cfg_mutex, cfg_file, get_by_ref, cpc, cloc, ch,
          services_, svc_running, running_, shutdown_requested_, dpc, dloc, dlog,
          run_result, g_shutdown_requested,
          cpu_first_call_, last_cpu_idle_, last_cpu_total_, last_cpu_time_, health>>

ioVars == <<now, rl_count, window_start, admitted,
            running, server_fd, socket_file, active_connections,
            connections_served, apc, ctl, conn, srv, extVars>>

\* the state of the alert store, the monitor, the rate limiter and the server
kernelVars == <<alerts, count, stmt_mutex, active_alert_keys, pc, loc, started,
                createCalls, createOk, createFailed, mode, hist,
                rl_count, window_start, admitted,
                running, server_fd, socket_file, active_connections,
                connections_served, apc, ctl, conn, srv>>

monVars == <<active_alert_keys, started, createCalls, createOk, mode, hist, ioVars>>

\* the rate limiter and the server as constructed, before start()
IoInit ==
    /\ now = 0
    /\ rl_count = 0
    /\ window_start = 0
    /\ admitted = <<>>
    /\ running = FALSE
    /\ server_fd = "closed"
    /\ socket_file = FALSE
    /\ active_connections = 0
    /\ connections_served = 0
    /\ apc = "none"
    /\ ctl = "idle"
    /\ conn = [body |-> "", handler |-> "none", response |-> 0,
               allowed |-> FALSE, sent |-> FALSE, closed |-> TRUE, raised |-> FALSE,
           delivered |-> FALSE]
    /\ srv = [starts |-> 0, unlinks |-> 0, stopped |-> FALSE, dtor |-> FALSE,
              early |-> FALSE, overlap |-> FALSE, parseErrors |-> FALSE]
    /\ LlmInit
    /\ CfgInit
    /\ DaemonInit
    /\ UsageInit

(***************************************************************************)
(* Alert store: counters                                                   *)
(***************************************************************************)
CounterOf(severity) ==
    CASE severity = "INFO" -> "info"
      [] severity = "WARNING" -> "warning"
      [] severity = "ERROR" -> "error"
      [] severity = "CRITICAL" -> "critical"

ZeroCount == [info |-> 0, warning |-> 0, error |-> 0, critical |-> 0, total |-> 0]

CounterOrder == <<"info", "warning", "error", "critical", "total">>

NoAlert == [severity |-> "INFO", category |-> "SYSTEM", source |-> "", message |-> "",
            status |-> "ACTIVE"]

\* the table and the counters a call found, kept by the runs that examine
\* single calls
NoPre == [alerts |-> <<>>, count |-> ZeroCount]

NoResponse == [success |-> FALSE, error_code |-> 0]

\* AlertFilter: "none" for an optional field that is not set
NoFilter == [severity |-> "none", category |-> "none", status |-> "none",
             source |-> "none", include_dismissed |-> FALSE]

NoLoc == [health |-> NoHealth, ci |-> 0, sev |-> "INFO", ret |-> "idle",
          res |-> FALSE, startLen |-> 0, delta |-> 0, alert |-> NoAlert,
          uuid |-> 0, seen |-> "ACTIVE", k |-> 0, snap |-> ZeroCount,
          op |-> "none", pre |-> NoPre, n |-> 0, resp |-> NoResponse,
          filter |-> NoFilter, list |-> <<>>]

\* a call returns to its caller; a caller of the store has nothing left to do
Return(t, result) ==
    IF loc[t].ret = "idle"
    THEN /\ pc' = [pc EXCEPT ![t] = "idle"]
         /\ loc' = [loc EXCEPT ![t] = IF mode \in {"calls", "pairs"}
                                      THEN [loc[t] EXCEPT !.res = result, !.ret = "returned"]
                                      ELSE NoLoc]
    ELSE /\ pc' = [pc EXCEPT ![t] = loc[t].ret]
         /\ loc' = [loc EXCEPT ![t].res = result]

\* first half of update_counters: fetch_add on the severity's counter
UpdateCountersSev(t) ==
    /\ pc[t] = "uc_sev"
    /\ count' = [count EXCEPT ![CounterOf(loc[t].sev)] = @ + loc[t].delta]
    /\ pc' = [pc EXCEPT ![t] = "uc_total"]
    /\ UNCHANGED <<alerts, stmt_mutex, loc, createFailed>>
    /\ UNCHANGED monVars

\* second half of update_counters: fetch_add on count_total_, then return
UpdateCountersTotal(t) ==
    /\ pc[t] = "uc_total"
    /\ count' = [count EXCEPT !.total = @ + loc[t].delta]
    /\ Return(t, TRUE)
    /\ UNCHANGED <<alerts, stmt_mutex, createFailed>>
    /\ UNCHANGED monVars

(***************************************************************************)
(* Threshold engine                                                        *)
(***************************************************************************)
Pct(h, cat) ==
    CASE cat = "CPU" -> h.cpu
      [] cat = "MEMORY" -> h.mem
      [] cat = "DISK" -> h.disk

Warning(cat) ==
    CASE cat = "CPU" -> CpuWarning
      [] cat = "MEMORY" -> MemoryWarning
      [] cat = "DISK" -> DiskWarning

Critical(cat) ==
    CASE cat = "CPU" -> CpuCritical
      [] cat = "MEMORY" -> MemoryCritical
      [] cat = "DISK" -> DiskCritical

\* the branch check_thresholds takes for a category
Level(h, cat) ==
    IF cat = "SERVICE"
    THEN (IF h.failed > 0 THEN "crit" ELSE "none")
    ELSE IF Pct(h, cat) >= Critical(cat) THEN "crit"
    ELSE IF Pct(h, cat) >= Warning(cat) THEN "warn"
    ELSE "none"

Levels(h) == [c \in {"CPU", "MEMORY", "DISK", "SERVICE"} |-> Level(h, c)]

\* severity of the alert raised in a branch
SeverityOf(cat, level) ==
    IF cat = "SERVICE" THEN "ERROR"
    ELSE IF level = "crit" THEN "CRITICAL" ELSE "WARNING"

Message(cat, sev) ==
    CASE cat = "CPU" /\ sev = "CRITICAL" -> "CPU usage critical"
      [] cat = "CPU" /\ sev = "WARNING" -> "CPU usage high"
      [] cat = "MEMORY" /\ sev = "CRITICAL" -> "Memory usage critical"
      [] cat = "MEMORY" /\ sev = "WARNING" -> "Memory usage high"
      [] cat = "DISK" /\ sev = "CRITICAL" -> "Disk usage critical"
      [] cat = "DISK" /\ sev = "WARNING" -> "Disk usage high"
      [] cat = "SERVICE" -> "Failed systemd services detected"
      [] OTHER -> "?"

\* category:severity:source:message
AlertKey(cat, sev, source, message) == <<cat, sev, source, message>>

MonitorKey(cat, sev) == AlertKey(cat, sev, "system_monitor", Message(cat, sev))

RowKey(row) == AlertKey(row.category, row.severity, row.source, row.message)

CurCat(t) == CatOrder[loc[t].ci]
CurLevel(t) == Level(loc[t].health, CurCat(t))
CurKey(t) == MonitorKey(CurCat(t), SeverityOf(CurCat(t), CurLevel(t)))

\* monitor_loop hands a snapshot to check_thresholds
TickStart(t, h) ==
    /\ pc[t] = "idle"
    /\ pc' = [pc EXCEPT ![t] = "ct_cat"]
    /\ loc' = [loc EXCEPT ![t] = [NoLoc EXCEPT !.health = h, !.ci = 1,
                                                !.startLen = IF mode = "s2" THEN Len(alerts) ELSE 0]]
    /\ started' = started \cup {t}
    /\ UNCHANGED <<alerts, count, stmt_mutex, active_alert_keys, createCalls,
                   createOk, createFailed, mode, hist, ioVars>>

\* the alert create_basic_alert builds
BasicAlert(t) ==
    [severity |-> SeverityOf(CurCat(t), CurLevel(t)), category |-> CurCat(t),
     source |-> "system_monitor",
     message |-> Message(CurCat(t), SeverityOf(CurCat(t), CurLevel(t))),
     status |-> "ACTIVE"]

\* CbaCheck without the duplicate check: every firing branch calls create_alert
CbaCheck_NoDedup(t) ==
    /\ pc[t] = "ct_cat"
    /\ CurLevel(t) # "none"
    /\ active_alert_keys' = active_alert_keys \cup {CurKey(t)}
    /\ createCalls' = IF mode = "ticks"
                      THEN createCalls \cup {<<t, CurKey(t)>>}
                      ELSE createCalls
    /\ loc' = [loc EXCEPT ![t].sev = SeverityOf(CurCat(t), CurLevel(t)),
                          ![t].alert = BasicAlert(t),
                          ![t].ret = "cba_result", ![t].delta = 1]
    /\ pc' = [pc EXCEPT ![t] = "ca_insert"]
    /\ UNCHANGED <<alerts, count, stmt_mutex, started, createOk, createFailed,
                   mode, hist, ioVars>>

\* CbaCheck that checks the key but leaves the insert until after create_alert
CbaCheck_InsertLate(t) ==
    /\ pc[t] = "ct_cat"
    /\ CurLevel(t) # "none"
    /\ IF CurKey(t) \in active_alert_keys
       THEN /\ pc' = [pc EXCEPT ![t] = "ct_after"]
            /\ UNCHANGED <<createCalls, loc>>
       ELSE /\ createCalls' = IF mode = "ticks"
                              THEN createCalls \cup {<<t, CurKey(t)>>}
                              ELSE createCalls
            /\ loc' = [loc EXCEPT ![t].sev = SeverityOf(CurCat(t), CurLevel(t)),
                                  ![t].alert = BasicAlert(t),
                                  ![t].ret = "cba_result", ![t].delta = 1]
            /\ pc' = [pc EXCEPT ![t] = "ca_insert"]
    /\ UNCHANGED <<alerts, count, stmt_mutex, active_alert_keys, started, createOk,
                   createFailed, mode, hist, ioVars>>

\* create_basic_alert, first critical section: check the key and insert it
CbaCheck(t) ==
    /\ pc[t] = "ct_cat"
    /\ CurLevel(t) # "none"
    /\ IF CurKey(t) \in active_alert_keys
       THEN /\ pc' = [pc EXCEPT ![t] = "ct_after"]
            /\ UNCHANGED <<active_alert_keys, createCalls, loc>>
       ELSE /\ active_alert_keys' = active_alert_keys \cup {CurKey(t)}
            /\ createCalls' = IF mode = "ticks"
                              THEN createCalls \cup {<<t, CurKey(t)>>}
                              ELSE createCalls
            /\ loc' = [loc EXCEPT ![t].sev = SeverityOf(CurCat(t), CurLevel(t)),
                                  ![t].alert = BasicAlert(t),
                                  ![t].ret = "cba_result", ![t].delta = 1]
            /\ pc' = [pc EXCEPT ![t] = "ca_insert"]
    /\ UNCHANGED <<alerts, count, stmt_mutex, started, createOk, createFailed,
                   mode, hist, ioVars>>

CreateInsert_AlwaysCount(t) ==
    /\ pc[t] = "ca_insert"
    /\ stmt_mutex = "free"
    /\ \E ok \in BOOLEAN :
         /\ ok => Len(alerts) < MaxAlerts
         /\ IF ok
            THEN /\ alerts' = Append(alerts, loc[t].alert)
                 /\ createOk' = IF mode = "ticks"
                                 THEN createOk \cup {<<t, RowKey(loc[t].alert)>>}
                                 ELSE createOk
                 /\ pc' = [pc EXCEPT ![t] = "uc_sev"]
                 /\ UNCHANGED loc
                 /\ UNCHANGED createFailed
            ELSE /\ createFailed' = TRUE
                 /\ Return(t, FALSE)
                 /\ UNCHANGED <<alerts, createOk>>
    /\ UNCHANGED <<count, stmt_mutex, active_alert_keys, started, createCalls,
                   mode, hist, ioVars>>

\* create_alert: the INSERT under stmt_mutex_; a failed step returns nullopt,
\* a row that is not ACTIVE leaves the counters alone
CreateInsert(t) ==
    /\ pc[t] = "ca_insert"
    /\ stmt_mutex = "free"
    /\ \E ok \in BOOLEAN :
         /\ ok => Len(alerts) < MaxAlerts
         /\ IF ok
            THEN /\ alerts' = Append(alerts, loc[t].alert)
                 /\ createOk' = IF mode = "ticks"
                                 THEN createOk \cup {<<t, RowKey(loc[t].alert)>>}
                                 ELSE createOk
                 /\ IF loc[t].alert.status = "ACTIVE"
                    THEN /\ pc' = [pc EXCEPT ![t] = "uc_sev"]
                         /\ UNCHANGED loc
                    ELSE Return(t, TRUE)
                 /\ UNCHANGED createFailed
            ELSE /\ createFailed' = TRUE
                 /\ Return(t, FALSE)
                 /\ UNCHANGED <<alerts, createOk>>
    /\ UNCHANGED <<count, stmt_mutex, active_alert_keys, started, createCalls,
                   mode, hist, ioVars>>

CbaResult_KeepKey(t) ==
    /\ pc[t] = "cba_result"
    /\ pc' = [pc EXCEPT ![t] = "ct_after"]
    /\ UNCHANGED <<alerts, count, stmt_mutex, active_alert_keys, loc, started,
                   createCalls, createOk, createFailed, mode, hist, ioVars>>

\* create_basic_alert after create_alert returned: roll the key back on failure
CbaResult(t) ==
    /\ pc[t] = "cba_result"
    /\ active_alert_keys' = IF loc[t].res THEN active_alert_keys
                            ELSE active_alert_keys \ {CurKey(t)}
    /\ pc' = [pc EXCEPT ![t] = "ct_after"]
    /\ UNCHANGED <<alerts, count, stmt_mutex, loc, started, createCalls,
                   createOk, createFailed, mode, hist, ioVars>>

\* move on to the next category, or finish the tick
NextCat(t) ==
    IF loc[t].ci < Len(CatOrder)
    THEN /\ loc' = [loc EXCEPT ![t].ci = @ + 1]
         /\ pc' = [pc EXCEPT ![t] = "ct_cat"]
    ELSE /\ pc' = [pc EXCEPT ![t] = "ct_end"]
         /\ UNCHANGED loc

CtAfter_KeepCritical(t) ==
    /\ pc[t] = "ct_after"
    /\ NextCat(t)
    /\ UNCHANGED <<alerts, count, stmt_mutex, active_alert_keys, started,
                   createCalls, createOk, createFailed, mode, hist, ioVars>>

\* check_thresholds after create_basic_alert: a warning erases the critical key
CtAfter(t) ==
    /\ pc[t] = "ct_after"
    /\ active_alert_keys' =
         IF CurCat(t) \in ThresholdCats /\ CurLevel(t) = "warn"
         THEN active_alert_keys \ {MonitorKey(CurCat(t), "CRITICAL")}
         ELSE active_alert_keys
    /\ NextCat(t)
    /\ UNCHANGED <<alerts, count, stmt_mutex, started, createCalls, createOk,
                   createFailed, mode, hist, ioVars>>

\* recovery that forgets the warning key
RecoveredKeys_CritOnly(cat) ==
    IF cat = "SERVICE" THEN {MonitorKey(cat, "ERROR")}
    ELSE {MonitorKey(cat, "CRITICAL")}

\* keys check_thresholds erases when a category has recovered
RecoveredKeys(cat) ==
    IF cat = "SERVICE" THEN {MonitorKey(cat, "ERROR")}
    ELSE {MonitorKey(cat, "CRITICAL"), MonitorKey(cat, "WARNING")}

\* check_thresholds, recovery branch
CtNone(t) ==
    /\ pc[t] = "ct_cat"
    /\ CurLevel(t) = "none"
    /\ active_alert_keys' = active_alert_keys \ RecoveredKeys(CurCat(t))
    /\ NextCat(t)
    /\ UNCHANGED <<alerts, count, stmt_mutex, started, createCalls, createOk,
                   createFailed, mode, hist, ioVars>>

IsDiskRow(row) == row.category = "DISK"

SeverityList(rows) == [i \in 1..Len(rows) |-> rows[i].severity]

\* severities of the DISK rows inserted since the tick began, in order
CreatedInTick(t) ==
    SeverityList(SelectSeq(SubSeq(alerts, loc[t].startLen + 1, Len(alerts)), IsDiskRow))

\* check_thresholds returns
TickEnd(t) ==
    /\ pc[t] = "ct_end"
    /\ pc' = [pc EXCEPT ![t] = "idle"]
    /\ loc' = [loc EXCEPT ![t] = [NoLoc EXCEPT !.health = loc[t].health]]
    /\ hist' = IF mode = "s2" /\ Len(hist) < MaxHist
               THEN Append(hist, [level |-> Level(loc[t].health, "DISK"),
                                  created |-> CreatedInTick(t)])
               ELSE hist
    /\ UNCHANGED <<alerts, count, stmt_mutex, active_alert_keys, started, createCalls,
                   createOk, createFailed, mode, ioVars>>

TickStep(t) ==
    \/ CbaCheck(t)
    \/ CreateInsert(t)
    \/ UpdateCountersSev(t)
    \/ UpdateCountersTotal(t)
    \/ CbaResult(t)
    \/ CtAfter(t)
    \/ CtNone(t)
    \/ TickEnd(t)

(***************************************************************************)
(* Alert store: operations called by the handlers and the tests            *)
(***************************************************************************)
\* severities and statuses of the alerts callers create
ClientSeverities == {"WARNING", "CRITICAL"}
ClientAlerts ==
    [severity : ClientSeverities, category : {"SYSTEM"}, source : {"test"},
     message : {"Test alert"}, status : Statuses]

\* what a call finds when it starts
Pre == IF mode \in {"calls", "pairs"} THEN [alerts |-> alerts, count |-> count] ELSE NoPre

storeFrame == <<active_alert_keys, started, createCalls, createOk, createFailed,
                mode, hist, ioVars>>

NonDismissed(rows, severity) ==
    Cardinality({i \in DOMAIN rows :
                   rows[i].severity = severity /\ rows[i].status # "DISMISSED"})

\* load_initial_counters: SELECT severity, COUNT(*) WHERE status != DISMISSED
LoadInitialCounters(rows) ==
    [info |-> NonDismissed(rows, "INFO"),
     warning |-> NonDismissed(rows, "WARNING"),
     error |-> NonDismissed(rows, "ERROR"),
     critical |-> NonDismissed(rows, "CRITICAL"),
     total |-> NonDismissed(rows, "INFO") + NonDismissed(rows, "WARNING")
               + NonDismissed(rows, "ERROR") + NonDismissed(rows, "CRITICAL")]

\* a caller invokes create_alert
CreateCall(t, alert) ==
    /\ pc[t] = "idle"
    /\ Len(alerts) + Cardinality({u \in Threads : pc[u] = "ca_insert"}) < MaxRows
    /\ pc' = [pc EXCEPT ![t] = "ca_insert"]
    /\ loc' = [loc EXCEPT ![t] = [NoLoc EXCEPT !.alert = alert,
                                                !.sev = alert.severity,
                                                !.delta = 1,
                                                !.op = "create",
                                                !.pre = Pre]]
    /\ UNCHANGED <<alerts, count, stmt_mutex>>
    /\ UNCHANGED storeFrame

\* a caller invokes acknowledge_alert; id 0 names no row
AckCall(t, id) ==
    /\ pc[t] = "idle"
    /\ pc' = [pc EXCEPT ![t] = "ack_get"]
    /\ loc' = [loc EXCEPT ![t] = [NoLoc EXCEPT !.uuid = id, !.op = "acknowledge",
                                                !.pre = Pre]]
    /\ UNCHANGED <<alerts, count, stmt_mutex>>
    /\ UNCHANGED storeFrame

AckGet_AnyStatus(t) ==
    /\ pc[t] = "ack_get"
    /\ stmt_mutex = "free"
    /\ IF loc[t].uuid \in DOMAIN alerts
       THEN /\ pc' = [pc EXCEPT ![t] = "ack_update"]
            /\ loc' = [loc EXCEPT ![t].sev = alerts[loc[t].uuid].severity,
                                  ![t].seen = alerts[loc[t].uuid].status,
                                  ![t].delta = -1]
       ELSE Return(t, FALSE)
    /\ UNCHANGED <<alerts, count, stmt_mutex>>
    /\ UNCHANGED storeFrame

\* acknowledge_alert: get_alert under the mutex, return false unless ACTIVE
AckGet(t) ==
    /\ pc[t] = "ack_get"
    /\ stmt_mutex = "free"
    /\ IF loc[t].uuid \in DOMAIN alerts /\ alerts[loc[t].uuid].status = "ACTIVE"
       THEN /\ pc' = [pc EXCEPT ![t] = "ack_update"]
            /\ loc' = [loc EXCEPT ![t].sev = alerts[loc[t].uuid].severity,
                                  ![t].seen = alerts[loc[t].uuid].status,
                                  ![t].delta = -1]
       ELSE Return(t, FALSE)
    /\ UNCHANGED <<alerts, count, stmt_mutex>>
    /\ UNCHANGED storeFrame

\* acknowledge_alert: UPDATE .. SET status = ACKNOWLEDGED WHERE uuid = ?
AckUpdate(t) ==
    /\ pc[t] = "ack_update"
    /\ stmt_mutex = "free"
    /\ \E ok \in BOOLEAN :
         IF ok
         THEN /\ alerts' = [alerts EXCEPT ![loc[t].uuid].status = "ACKNOWLEDGED"]
              /\ pc' = [pc EXCEPT ![t] = "uc_sev"]
              /\ UNCHANGED loc
         ELSE /\ Return(t, FALSE)
              /\ UNCHANGED alerts
    /\ UNCHANGED <<count, stmt_mutex>>
    /\ UNCHANGED storeFrame

\* a caller invokes acknowledge_all
AckAllCall(t) ==
    /\ pc[t] = "idle"
    /\ pc' = [pc EXCEPT ![t] = "aa_update"]
    /\ loc' = [loc EXCEPT ![t] = [NoLoc EXCEPT !.op = "acknowledge_all", !.pre = Pre]]
    /\ UNCHANGED <<alerts, count, stmt_mutex>>
    /\ UNCHANGED storeFrame

\* acknowledge_all: UPDATE .. WHERE status = ACTIVE; the mutex stays held for
\* the counter stores when rows changed
AckAllUpdate(t) ==
    /\ pc[t] = "aa_update"
    /\ stmt_mutex = "free"
    /\ \E ok \in BOOLEAN :
         IF ok /\ \E i \in DOMAIN alerts : alerts[i].status = "ACTIVE"
         THEN /\ alerts' = [i \in DOMAIN alerts |->
                              IF alerts[i].status = "ACTIVE"
                              THEN [alerts[i] EXCEPT !.status = "ACKNOWLEDGED"]
                              ELSE alerts[i]]
              /\ stmt_mutex' = t
              /\ pc' = [pc EXCEPT ![t] = "aa_zero"]
              /\ loc' = [loc EXCEPT ![t].k = 1,
                                    ![t].n = Cardinality({i \in DOMAIN alerts :
                                                            alerts[i].status = "ACTIVE"})]
         ELSE /\ Return(t, FALSE)
              /\ UNCHANGED <<alerts, stmt_mutex>>
    /\ UNCHANGED count
    /\ UNCHANGED storeFrame

\* acknowledge_all: one of the five stores of zero; the last releases the mutex
AckAllZero(t) ==
    /\ pc[t] = "aa_zero"
    /\ count' = [count EXCEPT ![CounterOrder[loc[t].k]] = 0]
    /\ IF loc[t].k < Len(CounterOrder)
       THEN /\ loc' = [loc EXCEPT ![t].k = @ + 1]
            /\ UNCHANGED <<pc, stmt_mutex>>
       ELSE /\ stmt_mutex' = "free"
            /\ Return(t, TRUE)
    /\ UNCHANGED alerts
    /\ UNCHANGED storeFrame

\* a caller invokes dismiss_alert; id 0 names no row
DismissCall(t, id) ==
    /\ pc[t] = "idle"
    /\ pc' = [pc EXCEPT ![t] = "dis_get"]
    /\ loc' = [loc EXCEPT ![t] = [NoLoc EXCEPT !.uuid = id, !.op = "dismiss",
                                                !.pre = Pre]]
    /\ UNCHANGED <<alerts, count, stmt_mutex>>
    /\ UNCHANGED storeFrame

\* dismiss_alert: get_alert under the mutex, return false when there is no row
DismissGet(t) ==
    /\ pc[t] = "dis_get"
    /\ stmt_mutex = "free"
    /\ IF loc[t].uuid \in DOMAIN alerts
       THEN /\ pc' = [pc EXCEPT ![t] = "dis_update"]
            /\ loc' = [loc EXCEPT ![t].sev = alerts[loc[t].uuid].severity,
                                  ![t].seen = alerts[loc[t].uuid].status,
                                  ![t].delta = -1]
       ELSE Return(t, FALSE)
    /\ UNCHANGED <<alerts, count, stmt_mutex>>
    /\ UNCHANGED storeFrame

DismissUpdate_AlwaysDecrement(t) ==
    /\ pc[t] = "dis_update"
    /\ stmt_mutex = "free"
    /\ \E ok \in BOOLEAN :
         IF ok
         THEN /\ alerts' = [alerts EXCEPT ![loc[t].uuid].status = "DISMISSED"]
              /\ pc' = [pc EXCEPT ![t] = "uc_sev"]
              /\ UNCHANGED loc
         ELSE /\ Return(t, FALSE)
              /\ UNCHANGED alerts
    /\ UNCHANGED <<count, stmt_mutex>>
    /\ UNCHANGED storeFrame

\* dismiss_alert: UPDATE .. SET status = DISMISSED WHERE uuid = ?; the counters
\* are decremented when the row read before was ACTIVE
DismissUpdate(t) ==
    /\ pc[t] = "dis_update"
    /\ stmt_mutex = "free"
    /\ \E ok \in BOOLEAN :
         IF ok
         THEN /\ alerts' = [alerts EXCEPT ![loc[t].uuid].status = "DISMISSED"]
              /\ IF loc[t].seen = "ACTIVE"
                 THEN /\ pc' = [pc EXCEPT ![t] = "uc_sev"]
                      /\ UNCHANGED loc
                 ELSE Return(t, TRUE)
         ELSE /\ Return(t, FALSE)
              /\ UNCHANGED alerts
    /\ UNCHANGED <<count, stmt_mutex>>
    /\ UNCHANGED storeFrame

\* a caller invokes get_alert_counts
CountsCall(t) ==
    /\ pc[t] = "idle"
    /\ pc' = [pc EXCEPT ![t] = "gc_load"]
    /\ loc' = [loc EXCEPT ![t] = [NoLoc EXCEPT !.k = 1]]
    /\ UNCHANGED <<alerts, count, stmt_mutex>>
    /\ UNCHANGED storeFrame

\* get_alert_counts: one of the five relaxed loads, without the mutex
CountsLoad(t) ==
    /\ pc[t] = "gc_load"
    /\ loc' = [loc EXCEPT ![t].snap[CounterOrder[loc[t].k]] = count[CounterOrder[loc[t].k]],
                          ![t].k = @ + 1]
    /\ pc' = [pc EXCEPT ![t] = IF loc[t].k < Len(CounterOrder) THEN "gc_load"
                                ELSE "gc_done"]
    /\ UNCHANGED <<alerts, count, stmt_mutex>>
    /\ UNCHANGED storeFrame

\* get_alert_counts returns the snapshot
CountsReturn(t) ==
    /\ pc[t] = "gc_done"
    /\ pc' = [pc EXCEPT ![t] = "idle"]
    /\ loc' = [loc EXCEPT ![t] = NoLoc]
    /\ UNCHANGED <<alerts, count, stmt_mutex>>
    /\ UNCHANGED storeFrame

StoreStep(t) ==
    \/ CreateInsert(t)
    \/ UpdateCountersSev(t)
    \/ UpdateCountersTotal(t)
    \/ AckGet(t)
    \/ AckUpdate(t)
    \/ AckAllUpdate(t)
    \/ AckAllZero(t)
    \/ DismissGet(t)
    \/ DismissUpdate(t)
    \/ CountsLoad(t)
    \/ CountsReturn(t)

StoreCall(t) ==
    \/ \E a \in ClientAlerts : CreateCall(t, a)
    \/ \E id \in 0..Len(alerts) : AckCall(t, id)
    \/ AckAllCall(t)
    \/ \E id \in 0..Len(alerts) : DismissCall(t, id)
    \/ CountsCall(t)

(***************************************************************************)
(* Specifications                                                          *)
(***************************************************************************)
Init ==
    /\ alerts = <<>>
    /\ count = ZeroCount
    /\ stmt_mutex = "free"
    /\ active_alert_keys = {}
    /\ pc = [t \in Threads |-> "idle"]
    /\ loc = [t \in Threads |-> NoLoc]
    /\ started = {}
    /\ createCalls = {}
    /\ createOk = {}
    /\ createFailed = FALSE
    /\ mode = "mon"
    /\ hist = <<>>
    /\ IoInit

\* one monitor thread, as monitor_loop runs it
NextMon ==
    \/ \E h \in MonHealths : TickStart("m1", h)
    \/ TickStep("m1")

SpecMon == Init /\ [][NextMon]_vars

\* one monitor thread, the disk, memory and failed-unit readings vary
InitLevels ==
    /\ alerts = <<>>
    /\ count = ZeroCount
    /\ stmt_mutex = "free"
    /\ active_alert_keys = {}
    /\ pc = [t \in Threads |-> "idle"]
    /\ loc = [t \in Threads |-> NoLoc]
    /\ started = {}
    /\ createCalls = {}
    /\ createOk = {}
    /\ createFailed = FALSE
    /\ mode = "levels"
    /\ hist = <<>>
    /\ IoInit

NextLevels ==
    \/ \E h \in LevelHealths : TickStart("m1", h)
    \/ TickStep("m1")

SpecLevels == InitLevels /\ [][NextLevels]_vars

\* the disk scenario: one monitor thread, only the disk reading varies
InitS2 ==
    /\ alerts = <<>>
    /\ count = ZeroCount
    /\ stmt_mutex = "free"
    /\ active_alert_keys = {}
    /\ pc = [t \in Threads |-> "idle"]
    /\ loc = [t \in Threads |-> NoLoc]
    /\ started = {}
    /\ createCalls = {}
    /\ createOk = {}
    /\ createFailed = FALSE
    /\ mode = "s2"
    /\ hist = <<>>
    /\ IoInit

NextS2 ==
    \/ \E h \in DiskHealths : Len(hist) < MaxHist /\ TickStart("m1", h)
    \/ TickStep("m1")

SpecS2 == InitS2 /\ [][NextS2]_vars

\* two monitor ticks, one per thread, on snapshots at the same level
InitTicks ==
    /\ alerts = <<>>
    /\ count = ZeroCount
    /\ stmt_mutex = "free"
    /\ active_alert_keys = {}
    /\ pc = [t \in Threads |-> "idle"]
    /\ loc = [t \in Threads |-> NoLoc]
    /\ started = {}
    /\ createCalls = {}
    /\ createOk = {}
    /\ createFailed = FALSE
    /\ mode = "ticks"
    /\ hist = <<>>
    /\ IoInit

NextTicks ==
    \/ \E t \in MonThreads, h \in MonHealths :
         /\ t \notin started
         /\ \A u \in started : Levels(loc[u].health) = Levels(h)
         /\ TickStart(t, h)
    \/ \E t \in MonThreads : TickStep(t)

SpecTicks == InitTicks /\ [][NextTicks]_vars

\* tables the store can be opened on
InitialTables ==
    {<<>>} \cup {<<a>> : a \in ClientAlerts}

\* the alert store after initialize() on an existing table, and its callers
InitStore ==
    /\ alerts \in InitialTables
    /\ count = LoadInitialCounters(alerts)
    /\ stmt_mutex = "free"
    /\ active_alert_keys = {}
    /\ pc = [t \in Threads |-> "idle"]
    /\ loc = [t \in Threads |-> NoLoc]
    /\ started = {}
    /\ createCalls = {}
    /\ createOk = {}
    /\ createFailed = FALSE
    /\ mode = "store"
    /\ hist = <<>>
    /\ IoInit

NextStore ==
    \E t \in StoreThreads : StoreCall(t) \/ StoreStep(t)

SpecStore == InitStore /\ [][NextStore]_vars

(***************************************************************************)
(* Threshold engine: properties                                            *)
(***************************************************************************)
AllCats == {"CPU", "MEMORY", "DISK", "SERVICE"}

ActiveRowsWithKey(key) ==
    {i \in DOMAIN alerts : alerts[i].status = "ACTIVE" /\ RowKey(alerts[i]) = key}

MonitorKeys ==
    {MonitorKey(c, s) : c \in AllCats, s \in {"WARNING", "CRITICAL", "ERROR"}}

\* C1: after any sequence of snapshots processed by check_thresholds the
\* alerts table holds at most one ACTIVE row per alert key
C1_AtMostOneActivePerKey ==
    pc["m1"] = "idle" =>
        \A key \in MonitorKeys : Cardinality(ActiveRowsWithKey(key)) <= 1

\* C2 as stated: create_alert is called for a given key by at most one of two
\* ticks that run on snapshots at the same level
C2_CreateCalledByOne ==
    \A key \in MonitorKeys :
        ~(<<"m1", key>> \in createCalls /\ <<"m2", key>> \in createCalls)

\* C2 amended: create_alert returns a row for a given key to at most one of
\* two ticks that run on snapshots at the same level
C2_CreateSucceedsForOne ==
    \A key \in MonitorKeys :
        ~(<<"m1", key>> \in createOk /\ <<"m2", key>> \in createOk)

\* both ticks are under way, m1 has created the alert of a category and m2 is
\* already past that category without creating it
C2_Witness ==
    /\ mode = "ticks"
    /\ pc["m1"] # "idle" /\ pc["m2"] # "idle"
    /\ \E k \in 1..Len(CatOrder), s \in Severities :
         /\ <<"m1", MonitorKey(CatOrder[k], s)>> \in createOk
         /\ <<"m2", MonitorKey(CatOrder[k], s)>> \notin createOk
         /\ loc["m2"].ci > k

\* C3: once a snapshot with category c in the none band has been processed no
\* key of c is in active_alert_keys, and a row of category c is inserted only
\* while a snapshot with c in the warn or crit band is being processed
C3_NoneClears ==
    /\ [](pc["m1"] = "idle" /\ "m1" \in started =>
            \A c \in AllCats :
                Level(loc["m1"].health, c) = "none" =>
                    \A s \in Severities : MonitorKey(c, s) \notin active_alert_keys)
    /\ [][Len(alerts') > Len(alerts) =>
            Level(loc["m1"].health, alerts'[Len(alerts')].category) # "none"]_vars

\* create_alert returned a row with the key to some tick
Succeeded(key) == \E t \in MonThreads : <<t, key>> \in createOk

\* a tick is between the insertion of the key and the end of
\* create_basic_alert
InFlight(key) ==
    \E t \in MonThreads :
      /\ pc[t] \in {"ca_insert", "uc_sev", "uc_total", "cba_result"}
      /\ CurKey(t) = key

\* C32: a key is in the firing set only while its create is under way or
\* after its create succeeded, so a failed create has taken the key out again
\* when its tick ends; and a tick that finds the key of its level missing
\* calls create for it
C32_FailedCreateRollsBack ==
    /\ [](\A key \in active_alert_keys : Succeeded(key) \/ InFlight(key))
    /\ [](\A t \in MonThreads, key \in MonitorKeys :
            (pc[t] = "idle" /\ <<t, key>> \in createCalls
             /\ ~Succeeded(key) /\ ~InFlight(key)) => key \notin active_alert_keys)
    /\ [][\A t \in MonThreads :
            (pc[t] = "ct_cat" /\ pc'[t] # "ct_cat" /\ CurLevel(t) # "none"
             /\ CurKey(t) \notin active_alert_keys) =>
               (<<t, CurKey(t)>> \in createCalls' /\ pc'[t] = "ca_insert")]_vars

\* the create of the first tick failed for a key, its tick has ended, and the
\* second tick, on a snapshot at the same level, has created the alert
C32_Witness ==
    /\ mode = "ticks"
    /\ pc["m1"] = "idle" /\ pc["m2"] = "idle"
    /\ \E key \in MonitorKeys :
         /\ <<"m1", key>> \in createCalls
         /\ <<"m1", key>> \notin createOk
         /\ <<"m2", key>> \in createOk
         /\ key \in active_alert_keys

\* the key of the level the last snapshot had in a category
LevelKey(cat, level) == MonitorKey(cat, SeverityOf(cat, level))

\* C33: after a snapshot has been processed, with every create succeeding,
\* for CPU, memory and disk: crit has the critical key in the set, warn has
\* the warning key in and the critical key out, none has both out; and the
\* failed-unit key is in the set exactly when the failed-unit count is above 0
C33_KeysFollowLevels ==
    (pc["m1"] = "idle" /\ "m1" \in started /\ ~createFailed) =>
      /\ \A c \in ThresholdCats :
           LET level == Level(loc["m1"].health, c) IN
             /\ level = "crit" => MonitorKey(c, "CRITICAL") \in active_alert_keys
             /\ level = "warn" =>
                  /\ MonitorKey(c, "WARNING") \in active_alert_keys
                  /\ MonitorKey(c, "CRITICAL") \notin active_alert_keys
             /\ level = "none" =>
                  /\ MonitorKey(c, "WARNING") \notin active_alert_keys
                  /\ MonitorKey(c, "CRITICAL") \notin active_alert_keys
      /\ (MonitorKey("SERVICE", "ERROR") \in active_alert_keys)
           = (loc["m1"].health.failed > 0)

\* a snapshot with disk back at warn after crit, and failed units, has been
\* processed: the warning key is in, the critical key was taken out
C33_Witness ==
    /\ mode = "levels"
    /\ pc["m1"] = "idle" /\ "m1" \in started /\ ~createFailed
    /\ Level(loc["m1"].health, "DISK") = "warn"
    /\ loc["m1"].health.failed > 0
    /\ \E i \in DOMAIN alerts : RowKey(alerts[i]) = MonitorKey("DISK", "CRITICAL")

\* a disk alert was raised and the last snapshot processed has disk in the
\* none band
C3_Witness ==
    /\ mode = "mon"
    /\ pc["m1"] = "idle" /\ "m1" \in started
    /\ Level(loc["m1"].health, "DISK") = "none"
    /\ \E i \in DOMAIN alerts : alerts[i].category = "DISK"

\* the recorded snapshots go none.., warn.., crit.., none: a is the last of the
\* leading none snapshots and b the last warn snapshot
S2Shape(a, b) ==
    /\ 1 <= a /\ a < b /\ b + 1 < Len(hist)
    /\ \A i \in 1..Len(hist) :
         hist[i].level = (IF i <= a \/ i = Len(hist) THEN "none"
                          ELSE IF i <= b THEN "warn" ELSE "crit")

\* one WARNING on the first warn snapshot, one CRITICAL on the first crit
\* snapshot, nothing on any other snapshot, and no key left at the end
S2Expected(a, b) ==
    /\ \A i \in 1..Len(hist) :
         hist[i].created = (IF i = a + 1 THEN <<"WARNING">>
                            ELSE IF i = b + 1 THEN <<"CRITICAL">> ELSE <<>>)
    /\ active_alert_keys = {}

Quiescent == \A t \in StoreThreads : pc[t] = "idle"

\* C5: whenever no store operation is under way each severity counter equals
\* the number of rows of that severity that are not DISMISSED, and the total
\* counter the number of all rows that are not DISMISSED
C5_CountersMatchTable ==
    Quiescent => count = LoadInitialCounters(alerts)

\* C6: every snapshot get_alert_counts returns has info + warning + error +
\* critical equal to total
C6_SnapshotSumIsTotal ==
    \A t \in StoreThreads :
        pc[t] = "gc_done" =>
            loc[t].snap.info + loc[t].snap.warning + loc[t].snap.error
                + loc[t].snap.critical = loc[t].snap.total

\* C7: a DISMISSED row stays DISMISSED and an ACKNOWLEDGED row never becomes
\* ACTIVE again
C7_StatusSubpath ==
    [][\A i \in DOMAIN alerts :
          /\ alerts[i].status = "DISMISSED" => alerts'[i].status = "DISMISSED"
          /\ alerts[i].status = "ACKNOWLEDGED" => alerts'[i].status # "ACTIVE"]_vars

(***************************************************************************)
(* RateLimiter                                                             *)
(***************************************************************************)
\* the clock moves on
Advance ==
    /\ now + ClockStep <= MaxNow
    /\ now' = now + ClockStep

\* count_ and window_start_ after allow() has looked at the clock
WindowNow ==
    IF now - window_start >= WindowMs
    THEN [count |-> 0, start |-> now]
    ELSE [count |-> rl_count, start |-> window_start]

AllowResult_OffByOne == WindowNow.count <= MaxPerSecond

\* what allow() returns
AllowResult == WindowNow.count < MaxPerSecond

\* bool RateLimiter::allow()
Allow ==
    /\ window_start' = WindowNow.start
    /\ IF AllowResult
       THEN /\ rl_count' = WindowNow.count + 1
            /\ admitted' = Append(admitted, [at |-> now, window |-> WindowNow.start])
       ELSE /\ rl_count' = WindowNow.count
            /\ admitted' = admitted

RlAllow ==
    /\ Allow
    /\ UNCHANGED <<now, coreVars, srvVars>>

RlAdvance ==
    /\ Advance
    /\ UNCHANGED <<rl_count, window_start, admitted, coreVars, srvVars>>

InitRL ==
    /\ alerts = <<>>
    /\ count = ZeroCount
    /\ stmt_mutex = "free"
    /\ active_alert_keys = {}
    /\ pc = [t \in Threads |-> "idle"]
    /\ loc = [t \in Threads |-> NoLoc]
    /\ started = {}
    /\ createCalls = {}
    /\ createOk = {}
    /\ createFailed = FALSE
    /\ mode = "rl"
    /\ hist = <<>>
    /\ IoInit

NextRL ==
    \/ RlAllow
    \/ RlAdvance

SpecRL == InitRL /\ [][NextRL]_vars

(***************************************************************************)
(* Control server (IPCServer)                                              *)
(***************************************************************************)
\* what a client writes on its connection: nothing, text that is not JSON,
\* a JSON object without a method, a request for a registered method, a
\* request for a method nobody registered and a request for shutdown
Bodies == {"", "garbage", "{}", "{\"method\":\"ping\"}", "{\"method\":\"nope\"}",
           "{\"method\":\"shutdown\"}"}

NoRequest == [method |-> ""]

\* std::optional<Request> Request::parse(raw): the request, or NoRequest for
\* std::nullopt
RequestParse(raw) ==
    CASE raw = "{\"method\":\"ping\"}" -> [method |-> "ping"]
      [] raw = "{\"method\":\"nope\"}" -> [method |-> "nope"]
      [] raw = "{\"method\":\"shutdown\"}" -> [method |-> "shutdown"]
      [] OTHER -> NoRequest

\* methods with a registered handler
Handlers == {"ping", "shutdown"}

\* error_code of a success response
SuccessCode == 0

NoConn == [body |-> "", handler |-> "none", response |-> SuccessCode,
           allowed |-> FALSE, sent |-> FALSE, closed |-> TRUE, raised |-> FALSE,
           delivered |-> FALSE]

srvFrame == <<coreVars, now>>

\* bool IPCServer::start()
Start ==
    /\ ctl = "idle"
    /\ srv.starts < MaxStarts
    /\ IF running
       THEN UNCHANGED <<running, server_fd, socket_file, apc, srv>>
       ELSE \E created \in BOOLEAN :
              IF created
              THEN /\ server_fd' = "open"
                   /\ socket_file' = TRUE
                   /\ running' = TRUE
                   /\ apc' = "loop"
                   /\ srv' = [srv EXCEPT !.starts = @ + 1, !.unlinks = 0,
                                         !.stopped = FALSE]
              ELSE /\ server_fd' = "closed"
                   /\ socket_file' \in BOOLEAN
                   /\ srv' = [srv EXCEPT !.stopped = FALSE]
                   /\ UNCHANGED <<running, apc>>
    /\ UNCHANGED <<active_connections, connections_served, ctl, conn,
                   rl_count, window_start, admitted, srvFrame>>

\* stop(), called directly or by ~IPCServer(): the test of running_
StopCall(dtor) ==
    /\ ctl = "idle"
    /\ IF ~running
       THEN /\ ctl' = IF dtor THEN "destroyed" ELSE "idle"
            /\ srv' = [srv EXCEPT !.early = TRUE]
            /\ UNCHANGED running
       ELSE /\ running' = FALSE
            /\ ctl' = "stop_shutdown"
            /\ srv' = [srv EXCEPT !.dtor = dtor,
                                  !.overlap = (conn.handler = "running")]
    /\ UNCHANGED <<server_fd, socket_file, apc, active_connections,
                   connections_served, conn, rl_count, window_start, admitted,
                   srvFrame>>

\* stop(): shutdown(server_fd_, SHUT_RDWR)
StopShutdown ==
    /\ ctl = "stop_shutdown"
    /\ server_fd' = IF server_fd # "closed" THEN "shutdown" ELSE server_fd
    /\ ctl' = "stop_join"
    /\ UNCHANGED <<running, socket_file, apc, active_connections,
                   connections_served, conn, srv, rl_count, window_start,
                   admitted, srvFrame>>

StopJoin_NoJoin ==
    /\ ctl = "stop_join"
    /\ ctl' = "stop_wait"
    /\ UNCHANGED <<running, server_fd, socket_file, apc, active_connections,
                   connections_served, conn, srv, rl_count, window_start,
                   admitted, srvFrame>>

\* stop(): accept_thread_->join()
StopJoin ==
    /\ ctl = "stop_join"
    /\ apc = "exited"
    /\ ctl' = "stop_wait"
    /\ UNCHANGED <<running, server_fd, socket_file, apc, active_connections,
                   connections_served, conn, srv, rl_count, window_start,
                   admitted, srvFrame>>

\* stop(): connections_cv_.wait(.. active_connections_ == 0)
StopWait ==
    /\ ctl = "stop_wait"
    /\ active_connections = 0
    /\ ctl' = "stop_cleanup"
    /\ UNCHANGED <<running, server_fd, socket_file, apc, active_connections,
                   connections_served, conn, srv, rl_count, window_start,
                   admitted, srvFrame>>

\* stop(): cleanup_socket(), and the return
StopCleanup ==
    /\ ctl = "stop_cleanup"
    /\ server_fd' = "closed"
    /\ socket_file' = FALSE
    /\ srv' = [srv EXCEPT !.unlinks = IF socket_file THEN @ + 1 ELSE @,
                          !.stopped = TRUE]
    /\ ctl' = IF srv.dtor THEN "destroyed" ELSE "idle"
    /\ UNCHANGED <<running, apc, active_connections, connections_served, conn,
                   rl_count, window_start, admitted, srvFrame>>

\* accept_loop(): while (running_)
LoopTest ==
    /\ apc = "loop"
    /\ apc' = IF running THEN "accept" ELSE "exited"
    /\ UNCHANGED <<running, server_fd, socket_file, active_connections,
                   connections_served, ctl, conn, srv, rl_count, window_start,
                   admitted, srvFrame>>

\* accept_loop(): accept() returns a client that wrote body
AcceptConn(body) ==
    /\ apc = "accept"
    /\ server_fd = "open"
    /\ connections_served < MaxConns
    /\ conn' = [NoConn EXCEPT !.body = body, !.closed = FALSE]
    /\ apc' = "hc_enter"
    /\ UNCHANGED <<running, server_fd, socket_file, active_connections,
                   connections_served, ctl, srv, rl_count, window_start,
                   admitted, srvFrame>>

\* accept_loop(): accept() returns -1, as it does once the socket is shut down
AcceptFail ==
    /\ apc = "accept"
    /\ server_fd = "shutdown"
    /\ apc' = "loop"
    /\ UNCHANGED <<running, server_fd, socket_file, active_connections,
                   connections_served, ctl, conn, srv, rl_count, window_start,
                   admitted, srvFrame>>

\* handle_client(): active_connections_++, connections_served_++
HcEnter ==
    /\ apc = "hc_enter"
    /\ active_connections' = active_connections + 1
    /\ connections_served' = connections_served + 1
    /\ apc' = "hc_recv"
    /\ UNCHANGED <<running, server_fd, socket_file, ctl, conn, srv, rl_count,
                   window_start, admitted, srvFrame>>

\* handle_client(): recv(); a client that wrote nothing is closed unanswered
HcRecv ==
    /\ apc = "hc_recv"
    /\ IF conn.body = ""
       THEN /\ conn' = [conn EXCEPT !.closed = TRUE]
            /\ active_connections' = active_connections - 1
            /\ apc' = "loop"
       ELSE /\ apc' = "hc_allow"
            /\ UNCHANGED <<conn, active_connections>>
    /\ UNCHANGED <<running, server_fd, socket_file, connections_served, ctl,
                   srv, rl_count, window_start, admitted, srvFrame>>

HcAllow_DeniedGoesOn ==
    /\ apc = "hc_allow"
    /\ Allow
    /\ IF AllowResult
       THEN /\ conn' = [conn EXCEPT !.allowed = TRUE]
            /\ apc' = "hc_parse"
       ELSE /\ conn' = [conn EXCEPT !.response = RATE_LIMITED]
            /\ apc' = "hc_parse"
    /\ UNCHANGED <<running, server_fd, socket_file, active_connections,
                   connections_served, ctl, srv, srvFrame>>

\* handle_client(): rate_limiter_.allow(); a denied request is answered
\* RATE_LIMITED
HcAllow ==
    /\ apc = "hc_allow"
    /\ Allow
    /\ IF AllowResult
       THEN /\ conn' = [conn EXCEPT !.allowed = TRUE]
            /\ apc' = "hc_parse"
       ELSE /\ conn' = [conn EXCEPT !.response = RATE_LIMITED,
                                      !.sent = TRUE]
            /\ apc' = "hc_close"
    /\ UNCHANGED <<running, server_fd, socket_file, active_connections,
                   connections_served, ctl, srv, srvFrame>>

HcParse_DispatchAnyway ==
    /\ apc = "hc_parse"
    /\ conn' = [conn EXCEPT !.response = METHOD_NOT_FOUND]
    /\ apc' = "hc_send"
    /\ UNCHANGED <<running, server_fd, socket_file, active_connections,
                   connections_served, ctl, srv, rl_count, window_start,
                   admitted, srvFrame>>

\* handle_client(): Request::parse(), and dispatch() up to the call of the
\* handler
HcParse ==
    /\ apc = "hc_parse"
    /\ LET request == RequestParse(conn.body) IN
         IF request = NoRequest
         THEN /\ conn' = [conn EXCEPT !.response = PARSE_ERROR]
              /\ apc' = "hc_send"
         ELSE IF request.method \notin Handlers
         THEN /\ conn' = [conn EXCEPT !.response = METHOD_NOT_FOUND]
              /\ apc' = "hc_send"
         ELSE /\ conn' = [conn EXCEPT !.handler = "running"]
              /\ apc' = "hc_handler"
    /\ UNCHANGED <<running, server_fd, socket_file, active_connections,
                   connections_served, ctl, srv, rl_count, window_start,
                   admitted, srvFrame>>

\* all but shutdown_requested_ of what the server never touches
handlerFrame == <<alerts, count, stmt_mutex, active_alert_keys, pc, loc, started,
                  createCalls, createOk, createFailed, mode, hist, llmVars,
                  cfgVars, services_, svc_running, running_, dpc, dloc, dlog,
                  run_result, g_shutdown_requested, usageVars, now>>

\* what the handler of a method does: handle_shutdown calls
\* Daemon::request_shutdown()
HandlerEffect(method) ==
    shutdown_requested_' = IF method = "shutdown" THEN TRUE ELSE shutdown_requested_

HcHandler_ErrorAsSuccess ==
    /\ apc = "hc_handler"
    /\ \E raised \in (IF RequestParse(conn.body).method = "shutdown"
                       THEN {FALSE} ELSE BOOLEAN) :
         conn' = [conn EXCEPT !.handler = "returned", !.raised = raised,
                                !.response = SuccessCode]
    /\ HandlerEffect(RequestParse(conn.body).method)
    /\ apc' = "hc_send"
    /\ UNCHANGED <<running, server_fd, socket_file, active_connections,
                   connections_served, ctl, srv, rl_count, window_start,
                   admitted, handlerFrame>>

\* dispatch(): the handler returns its response, or throws and dispatch
\* answers INTERNAL_ERROR
HcHandler ==
    /\ apc = "hc_handler"
    /\ \E raised \in (IF RequestParse(conn.body).method = "shutdown"
                       THEN {FALSE} ELSE BOOLEAN) :
         conn' = [conn EXCEPT !.handler = "returned", !.raised = raised,
                                !.response = IF raised THEN INTERNAL_ERROR
                                             ELSE SuccessCode]
    /\ HandlerEffect(RequestParse(conn.body).method)
    /\ apc' = "hc_send"
    /\ UNCHANGED <<running, server_fd, socket_file, active_connections,
                   connections_served, ctl, srv, rl_count, window_start,
                   admitted, handlerFrame>>

HcSend_FailureLeaves ==
    /\ apc = "hc_send"
    /\ \E ok \in BOOLEAN :
         /\ conn' = [conn EXCEPT !.sent = TRUE, !.delivered = ok, !.closed = ~ok]
         /\ apc' = IF ok THEN "hc_close" ELSE "loop"
    /\ UNCHANGED <<running, server_fd, socket_file, active_connections,
                   connections_served, ctl, srv, rl_count, window_start,
                   admitted, srvFrame>>

\* handle_client(): send(); a return of -1 is logged
HcSend ==
    /\ apc = "hc_send"
    /\ \E ok \in BOOLEAN : conn' = [conn EXCEPT !.sent = TRUE, !.delivered = ok]
    /\ apc' = "hc_close"
    /\ UNCHANGED <<running, server_fd, socket_file, active_connections,
                   connections_served, ctl, srv, rl_count, window_start,
                   admitted, srvFrame>>

\* handle_client(): close(), active_connections_--, notify_all()
HcClose ==
    /\ apc = "hc_close"
    /\ conn' = [conn EXCEPT !.closed = TRUE]
    /\ active_connections' = active_connections - 1
    /\ apc' = "loop"
    /\ srv' = [srv EXCEPT !.parseErrors = @ \/ conn.response = PARSE_ERROR]
    /\ UNCHANGED <<running, server_fd, socket_file, connections_served, ctl,
                   rl_count, window_start, admitted, srvFrame>>

\* the clock moves on before the accept thread reads it in allow()
SrvAdvance ==
    /\ apc = "hc_allow"
    /\ Advance
    /\ UNCHANGED <<rl_count, window_start, admitted, coreVars, srvVars>>

InitServer ==
    /\ alerts = <<>>
    /\ count = ZeroCount
    /\ stmt_mutex = "free"
    /\ active_alert_keys = {}
    /\ pc = [t \in Threads |-> "idle"]
    /\ loc = [t \in Threads |-> NoLoc]
    /\ started = {}
    /\ createCalls = {}
    /\ createOk = {}
    /\ createFailed = FALSE
    /\ mode = "server"
    /\ hist = <<>>
    /\ IoInit

NextServer ==
    \/ Start
    \/ \E dtor \in BOOLEAN : StopCall(dtor)
    \/ StopShutdown
    \/ StopJoin
    \/ StopWait
    \/ StopCleanup
    \/ LoopTest
    \/ \E body \in Bodies : AcceptConn(body)
    \/ AcceptFail
    \/ HcEnter
    \/ HcRecv
    \/ HcAllow
    \/ HcParse
    \/ HcHandler
    \/ HcSend
    \/ HcClose
    \/ SrvAdvance

SpecServer == InitServer /\ [][NextServer]_vars

(***************************************************************************)
(* Control server: properties                                              *)
(***************************************************************************)
\* no handler is under way: the one that started has returned and its
\* response has gone through send()
HandlersDone ==
    /\ conn.handler # "running"
    /\ conn.handler = "returned" => conn.sent

\* C8: once stop() has returned the accept thread has exited and every
\* handler that had started has returned and its response has been sent; the
\* socket file is removed only after that, once in a cycle of start and stop,
\* and a further stop() or the destructor does not remove it again
C8_StopDrains ==
    /\ [](srv.stopped =>
            /\ apc = "exited"
            /\ active_connections = 0
            /\ HandlersDone
            /\ ~socket_file
            /\ srv.unlinks = 1)
    /\ [][srv'.unlinks > srv.unlinks =>
            /\ apc = "exited"
            /\ active_connections = 0
            /\ HandlersDone
            /\ srv.unlinks = 0]_vars

\* stop() began while a handler was running, the destructor then called
\* stop() again, and the file has been removed once
C8_Witness ==
    /\ mode = "server"
    /\ ctl = "destroyed"
    /\ srv.stopped
    /\ srv.early
    /\ srv.overlap
    /\ srv.unlinks = 1
    /\ conn.handler = "returned"
    /\ conn.sent

\* the connection last accepted has been handled to its end
Handled == connections_served > 0 /\ conn.closed

\* C9: every connection whose body is not a syntactically valid request is
\* answered PARSE_ERROR
C9_InvalidGetsParseError ==
    (Handled /\ RequestParse(conn.body) = NoRequest) =>
        (conn.sent /\ conn.response = PARSE_ERROR)

\* C9, amended: every connection whose body is not empty, is admitted by the
\* rate limiter and is not a syntactically valid request is answered
\* PARSE_ERROR, and the accept thread then goes back to its loop with the
\* listening socket as it was
C9_AdmittedInvalidGetsParseError ==
    /\ [](Handled /\ conn.allowed /\ RequestParse(conn.body) = NoRequest =>
            (conn.sent /\ conn.response = PARSE_ERROR))
    /\ [][(~conn.closed /\ conn'.closed /\ conn.response = PARSE_ERROR) =>
            /\ apc' = "loop"
            /\ server_fd' = server_fd
            /\ running' = running]_vars

\* a connection was answered PARSE_ERROR and a later one has been served
C9_Witness ==
    /\ mode = "server"
    /\ srv.parseErrors
    /\ Handled
    /\ conn.handler = "returned"
    /\ conn.response = SuccessCode
    /\ conn.sent

(***************************************************************************)
(* RateLimiter: properties                                                 *)
(***************************************************************************)
Instants == {i * ClockStep : i \in 0..(MaxNow \div ClockStep)}

AdmittedIn(from, to) ==
    Cardinality({i \in DOMAIN admitted : admitted[i].at >= from /\ admitted[i].at < to})

AdmittedInWindow(w) ==
    Cardinality({i \in DOMAIN admitted : admitted[i].window = w})

\* C10: over any window of one second the requests allow() admits are at
\* most max_per_second_
C10_AnySecond ==
    \A from \in Instants : AdmittedIn(from, from + WindowMs) <= MaxPerSecond

\* C10, amended: the requests admitted within one window of the limiter are
\* at most max_per_second_, and so over any window of one second they are at
\* most twice max_per_second_
C10_PerLimiterWindow ==
    /\ \A w \in Instants : AdmittedInWindow(w) <= MaxPerSecond
    /\ \A from \in Instants : AdmittedIn(from, from + WindowMs) <= 2 * MaxPerSecond

\* a window of the limiter is full and a second of the clock holds more
\* admitted requests than the maximum
C10_Witness ==
    /\ mode = "rl"
    /\ rl_count = MaxPerSecond
    /\ \E w \in Instants : AdmittedInWindow(w) = MaxPerSecond
    /\ \E from \in Instants : AdmittedIn(from, from + WindowMs) > MaxPerSecond

\* the request of the connection, as Request::parse gives it
ConnRequest == RequestParse(conn.body)

\* the response dispatch() owes the request of the connection
Owed ==
    IF ConnRequest.method \notin Handlers THEN METHOD_NOT_FOUND
    ELSE IF conn.raised THEN INTERNAL_ERROR
    ELSE SuccessCode

\* C29: a request that was admitted and parsed is answered once, with the
\* handler's response, with METHOD_NOT_FOUND when no handler is registered for
\* its method, or with INTERNAL_ERROR when the handler raised; the connection
\* is then closed and the accept loop goes on
C29_OneResponsePerRequest ==
    /\ []((conn.allowed /\ ConnRequest # NoRequest /\ conn.closed) =>
            /\ conn.sent
            /\ conn.response = Owed
            /\ (conn.handler = "returned") = (ConnRequest.method \in Handlers))
    /\ [][(apc = "hc_send" /\ apc' # "hc_send") => (~conn.sent /\ conn'.sent)]_vars
    /\ [][(conn.sent /\ ~conn.closed) =>
            (conn'.response = conn.response /\ conn'.sent)]_vars
    /\ [][(apc = "hc_close" /\ apc' # "hc_close") =>
            (apc' = "loop" /\ running' = running /\ server_fd' = server_fd)]_vars

\* a handler raised, its request was answered INTERNAL_ERROR, and the accept
\* loop is in accept() again
C29_Witness ==
    /\ mode = "server"
    /\ apc = "accept"
    /\ running
    /\ conn.raised
    /\ conn.response = INTERNAL_ERROR
    /\ conn.sent
    /\ conn.closed

\* the connection is one the rate limiter denied
Denied == apc \in {"hc_close", "loop", "accept"} /\ ~conn.allowed /\ conn.body # ""

\* C30: a connection the rate limiter denies is answered RATE_LIMITED; no
\* handler runs for it, and from allow() to its close nothing of the alert
\* store, of the configuration or of the daemon changes
C30_DeniedIsRateLimited ==
    /\ [](Denied =>
            /\ conn.sent
            /\ conn.response = RATE_LIMITED
            /\ conn.handler = "none")
    /\ [][(~conn.allowed /\ ~conn.closed /\ apc \in {"hc_allow", "hc_close"}
            /\ ~conn'.allowed) =>
            (conn'.handler = "none"
             /\ UNCHANGED <<alerts, count, cfgVars, daemonVars>>)]_vars

\* a request for shutdown was denied and its connection closed, and no
\* shutdown is requested
C30_Witness ==
    /\ mode = "server"
    /\ Denied
    /\ conn.closed
    /\ conn.body = "{\"method\":\"shutdown\"}"
    /\ conn.response = RATE_LIMITED
    /\ ~shutdown_requested_

\* positions of the accept thread inside handle_client, past the increment
Handling == {"hc_recv", "hc_allow", "hc_parse", "hc_handler", "hc_send", "hc_close"}

\* C39: active_connections_ is 0 or 1, it is 1 while handle_client is between
\* its increment and its decrement and 0 otherwise; it is incremented only as
\* handle_client is entered and decremented only as the connection is closed,
\* and handle_client is never left with the connection open
C39_InFlightCount ==
    /\ [](active_connections = IF apc \in Handling THEN 1 ELSE 0)
    /\ [][((active_connections' = active_connections + 1)
              <=> (apc = "hc_enter" /\ apc' = "hc_recv"))
           /\ ((active_connections' = active_connections - 1)
                 <=> (~conn.closed /\ conn'.closed))
           /\ ((apc \in Handling /\ apc' \notin Handling) => conn'.closed)]_vars

\* the third connection has been handled and closed: its handler threw and the
\* send of the answer failed
C39_Witness ==
    /\ mode = "server"
    /\ connections_served = 3
    /\ apc = "loop"
    /\ conn.sent
    /\ ~conn.delivered
    /\ conn.raised
    /\ conn.closed
    /\ active_connections = 0

(***************************************************************************)
(* LLM engine (LLMEngine)                                                  *)
(***************************************************************************)
llmFrame == <<kernelVars, cfgVars, daemonVars, usageVars>>

\* id of the request a caller makes next
NextRequest == Len(results) + 1

\* promise.set_value(result), or the return of the result
Complete(id, result) == results' = [results EXCEPT ![id] = result]

\* queue_cv_.notify_one() / notify_all(): a blocked worker becomes runnable
Notified(workerPc) == IF workerPc = "blocked" THEN "wait_check" ELSE workerPc

\* ids of the requests in request_queue_
Queued == {request_queue[i] : i \in 1..Len(request_queue)}

\* bool LLMEngine::start(), up to the call of load_model
LlmStart ==
    /\ lpc["main"] = "idle"
    /\ lh.starts < MaxLlmStarts
    /\ IF llm_running
       THEN UNCHANGED <<llm_running, lpc, lh>>
       ELSE /\ llm_running' = TRUE
            /\ lh' = [lh EXCEPT !.starts = @ + 1]
            /\ \E lazy \in BOOLEAN :
                 lpc' = [lpc EXCEPT !["worker"] = "loop",
                                    !["main"] = IF lazy THEN "idle" ELSE "load_lock"]
    /\ UNCHANGED <<backend_loaded, llm_mutex, queue_mutex, request_queue,
                   requests_this_second, rate_limit_window, lreq, results, now,
                   llmFrame>>

\* stop(): the test of running_, running_ = false
LlmStopCall ==
    /\ lpc["main"] = "idle"
    /\ IF ~llm_running
       THEN UNCHANGED <<llm_running, lpc, lh>>
       ELSE /\ llm_running' = FALSE
            /\ lpc' = [lpc EXCEPT !["main"] = "stop_notify"]
            /\ lh' = [lh EXCEPT !.atStop = IF mode = "infer" THEN Queued ELSE @]
    /\ UNCHANGED <<backend_loaded, llm_mutex, queue_mutex, request_queue,
                   requests_this_second, rate_limit_window, lreq, results,
                   now, llmFrame>>

\* stop(): queue_cv_.notify_all()
LlmStopNotify ==
    /\ lpc["main"] = "stop_notify"
    /\ lpc' = [lpc EXCEPT !["main"] = "stop_join",
                          !["worker"] = Notified(lpc["worker"])]
    /\ UNCHANGED <<llm_running, backend_loaded, llm_mutex, queue_mutex,
                   request_queue, requests_this_second, rate_limit_window, lreq,
                   results, lh, now, llmFrame>>

\* stop(): worker_thread_->join()
LlmStopJoin ==
    /\ lpc["main"] = "stop_join"
    /\ lpc["worker"] = "exited"
    /\ lpc' = [lpc EXCEPT !["main"] = "stop_unload"]
    /\ UNCHANGED <<llm_running, backend_loaded, llm_mutex, queue_mutex,
                   request_queue, requests_this_second, rate_limit_window, lreq,
                   results, lh, now, llmFrame>>

\* load_model(path), called directly
LoadCall ==
    /\ lpc["main"] = "idle"
    /\ lpc' = [lpc EXCEPT !["main"] = "load_lock"]
    /\ UNCHANGED <<llm_running, backend_loaded, llm_mutex, queue_mutex,
                   request_queue, requests_this_second, rate_limit_window, lreq,
                   results, lh, now, llmFrame>>

\* load_model(): backend_->load() under mutex_; a load that fails leaves no
\* model
LoadRun ==
    /\ lpc["main"] = "load_lock"
    /\ llm_mutex = "free"
    /\ \E ok \in BOOLEAN :
         /\ backend_loaded' = ok
         /\ lh' = [lh EXCEPT !.unloaded = IF ok THEN FALSE ELSE @]
    /\ lpc' = [lpc EXCEPT !["main"] = "idle"]
    /\ UNCHANGED <<llm_running, llm_mutex, queue_mutex, request_queue,
                   requests_this_second, rate_limit_window, lreq, results, now,
                   llmFrame>>

\* unload_model(), called directly
UnloadCall ==
    /\ lpc["main"] = "idle"
    /\ lpc' = [lpc EXCEPT !["main"] = "unload_lock"]
    /\ UNCHANGED <<llm_running, backend_loaded, llm_mutex, queue_mutex,
                   request_queue, requests_this_second, rate_limit_window, lreq,
                   results, lh, now, llmFrame>>

UnloadRun_NoLock ==
    /\ lpc["main"] \in {"unload_lock", "stop_unload"}
    /\ backend_loaded' = FALSE
    /\ lh' = [lh EXCEPT !.unloaded = TRUE]
    /\ lpc' = [lpc EXCEPT !["main"] = "idle"]
    /\ UNCHANGED <<llm_running, llm_mutex, queue_mutex, request_queue,
                   requests_this_second, rate_limit_window, lreq, results, now,
                   llmFrame>>

\* unload_model(): backend_->unload() under mutex_, and the return
UnloadRun ==
    /\ lpc["main"] \in {"unload_lock", "stop_unload"}
    /\ llm_mutex = "free"
    /\ backend_loaded' = FALSE
    /\ lh' = [lh EXCEPT !.unloaded = TRUE]
    /\ lpc' = [lpc EXCEPT !["main"] = "idle"]
    /\ UNCHANGED <<llm_running, llm_mutex, queue_mutex, request_queue,
                   requests_this_second, rate_limit_window, lreq, results, now,
                   llmFrame>>

\* infer_sync(request): the call
InferSyncCall ==
    /\ lpc["caller"] = "idle"
    /\ NextRequest <= MaxRequests
    /\ results' = Append(results, "pending")
    /\ lreq' = [lreq EXCEPT !["caller"] = [id |-> NextRequest, result |-> "pending"]]
    /\ lpc' = [lpc EXCEPT !["caller"] = "is_lock"]
    /\ UNCHANGED <<llm_running, backend_loaded, llm_mutex, queue_mutex,
                   request_queue, requests_this_second, rate_limit_window, lh,
                   now, llmFrame>>

\* infer_sync(): is_loaded() under mutex_, then the call of generate
InferSyncLock ==
    /\ lpc["caller"] = "is_lock"
    /\ llm_mutex = "free"
    /\ IF ~backend_loaded
       THEN /\ Complete(lreq["caller"].id, "not_loaded")
            /\ lpc' = [lpc EXCEPT !["caller"] = "idle"]
            /\ UNCHANGED llm_mutex
       ELSE /\ llm_mutex' = "caller"
            /\ lpc' = [lpc EXCEPT !["caller"] = "generate"]
            /\ UNCHANGED results
    /\ UNCHANGED <<llm_running, backend_loaded, queue_mutex, request_queue,
                   requests_this_second, rate_limit_window, lreq, lh, now,
                   llmFrame>>

\* infer_sync(): generate returns its result, mutex_ is released
InferSyncGenerate ==
    /\ lpc["caller"] = "generate"
    /\ Complete(lreq["caller"].id, "generated")
    /\ llm_mutex' = "free"
    /\ lpc' = [lpc EXCEPT !["caller"] = "idle"]
    /\ UNCHANGED <<llm_running, backend_loaded, queue_mutex, request_queue,
                   requests_this_second, rate_limit_window, lreq, lh, now,
                   llmFrame>>

\* infer_async(request): the call
InferAsyncCall ==
    /\ lpc["caller"] = "idle"
    /\ NextRequest <= MaxRequests
    /\ results' = Append(results, "pending")
    /\ lreq' = [lreq EXCEPT !["caller"] = [id |-> NextRequest, result |-> "pending"]]
    /\ lpc' = [lpc EXCEPT !["caller"] = "ia_rate"]
    /\ UNCHANGED <<llm_running, backend_loaded, llm_mutex, queue_mutex,
                   request_queue, requests_this_second, rate_limit_window, lh,
                   now, llmFrame>>

\* requests_this_second_ and rate_limit_window_ after check_rate_limit has
\* looked at the clock
RateWindowNow ==
    IF now - rate_limit_window >= WindowMs
    THEN [count |-> 0, start |-> now]
    ELSE [count |-> requests_this_second, start |-> rate_limit_window]

CheckRateLimit_OneMore == RateWindowNow.count <= MaxPerSecond

\* what check_rate_limit() returns
CheckRateLimit == RateWindowNow.count < MaxPerSecond

\* infer_async(): check_rate_limit()
InferAsyncRate ==
    /\ lpc["caller"] = "ia_rate"
    /\ rate_limit_window' = RateWindowNow.start
    /\ IF CheckRateLimit
       THEN /\ requests_this_second' = RateWindowNow.count + 1
            /\ lpc' = [lpc EXCEPT !["caller"] = "ia_queue"]
            /\ lh' = [lh EXCEPT !.admitted =
                        IF mode = "infer"
                        THEN @ \cup {[id |-> lreq["caller"].id, at |-> now]}
                        ELSE @]
            /\ UNCHANGED results
       ELSE /\ requests_this_second' = RateWindowNow.count
            /\ Complete(lreq["caller"].id, "rate_limited")
            /\ lpc' = [lpc EXCEPT !["caller"] = "idle"]
            /\ UNCHANGED lh
    /\ UNCHANGED <<llm_running, backend_loaded, llm_mutex, queue_mutex,
                   request_queue, lreq, now, llmFrame>>

InferAsyncQueue_NoBound ==
    /\ lpc["caller"] = "ia_queue"
    /\ queue_mutex = "free"
    /\ request_queue' = Append(request_queue, lreq["caller"].id)
    /\ lpc' = [lpc EXCEPT !["caller"] = "ia_notify"]
    /\ UNCHANGED <<llm_running, backend_loaded, llm_mutex, queue_mutex,
                   requests_this_second, rate_limit_window, lreq, results, lh,
                   now, llmFrame>>

\* infer_async(): the test of the queue's size and the push, under
\* queue_mutex_ ("Inference queue full")
InferAsyncQueue ==
    /\ lpc["caller"] = "ia_queue"
    /\ queue_mutex = "free"
    /\ IF Len(request_queue) >= MaxInferenceQueue
       THEN /\ Complete(lreq["caller"].id, "queue_full")
            /\ lpc' = [lpc EXCEPT !["caller"] = "idle"]
            /\ UNCHANGED <<request_queue, lh>>
       ELSE /\ request_queue' = Append(request_queue, lreq["caller"].id)
            /\ lpc' = [lpc EXCEPT !["caller"] = "ia_notify"]
            /\ lh' = [lh EXCEPT !.pushed = IF mode = "fifo"
                                           THEN Append(@, lreq["caller"].id) ELSE @]
            /\ UNCHANGED results
    /\ UNCHANGED <<llm_running, backend_loaded, llm_mutex, queue_mutex,
                   requests_this_second, rate_limit_window, lreq, now,
                   llmFrame>>

\* infer_async(): queue_cv_.notify_one()
InferAsyncNotify ==
    /\ lpc["caller"] = "ia_notify"
    /\ lpc' = [lpc EXCEPT !["caller"] = "idle",
                          !["worker"] = Notified(lpc["worker"])]
    /\ UNCHANGED <<llm_running, backend_loaded, llm_mutex, queue_mutex,
                   request_queue, requests_this_second, rate_limit_window, lreq,
                   results, lh, now, llmFrame>>

\* the results clear_queue() sets: "Queue cleared" for every queued request
Cleared == [i \in 1..Len(results) |->
              IF i \in Queued THEN "queue_cleared" ELSE results[i]]

\* clear_queue(): under queue_mutex_, every queued promise is completed
ClearQueue ==
    /\ lpc["main"] = "idle"
    /\ queue_mutex = "free"
    /\ request_queue # <<>>
    /\ results' = Cleared
    /\ request_queue' = <<>>
    /\ UNCHANGED <<llm_running, backend_loaded, llm_mutex, queue_mutex,
                   requests_this_second, rate_limit_window, lpc, lreq, lh, now,
                   llmFrame>>

\* the clock moves on before check_rate_limit reads it
LlmAdvance ==
    /\ lpc["caller"] = "ia_rate"
    /\ now < WindowMs
    /\ Advance
    /\ UNCHANGED <<llmVars, llmFrame>>

\* worker_loop(): while (running_)
WorkerLoop ==
    /\ lpc["worker"] = "loop"
    /\ lpc' = [lpc EXCEPT !["worker"] = IF llm_running THEN "wait_check" ELSE "exited"]
    /\ UNCHANGED <<llm_running, backend_loaded, llm_mutex, queue_mutex,
                   request_queue, requests_this_second, rate_limit_window, lreq,
                   results, lh, now, llmFrame>>

\* queue_cv_.wait(lock, pred): the predicate, evaluated under queue_mutex_
WorkerWaitCheck ==
    /\ lpc["worker"] = "wait_check"
    /\ queue_mutex = "free"
    /\ queue_mutex' = "worker"
    /\ lpc' = [lpc EXCEPT !["worker"] =
                 IF request_queue # <<>> \/ ~llm_running THEN "wait_done"
                 ELSE "wait_block"]
    /\ UNCHANGED <<llm_running, backend_loaded, llm_mutex, request_queue,
                   requests_this_second, rate_limit_window, lreq, results, lh,
                   now, llmFrame>>

\* queue_cv_.wait(): the worker releases queue_mutex_ and blocks
WorkerBlock ==
    /\ lpc["worker"] = "wait_block"
    /\ queue_mutex' = "free"
    /\ lpc' = [lpc EXCEPT !["worker"] = "blocked"]
    /\ UNCHANGED <<llm_running, backend_loaded, llm_mutex, request_queue,
                   requests_this_second, rate_limit_window, lreq, results, lh,
                   now, llmFrame>>

WorkerPop_Back ==
    /\ lpc["worker"] = "wait_done"
    /\ queue_mutex' = "free"
    /\ IF ~llm_running
       THEN /\ lpc' = [lpc EXCEPT !["worker"] = "exited"]
            /\ UNCHANGED <<request_queue, lreq, lh>>
       ELSE IF request_queue = <<>>
       THEN /\ lpc' = [lpc EXCEPT !["worker"] = "loop"]
            /\ UNCHANGED <<request_queue, lreq, lh>>
       ELSE /\ lreq' = [lreq EXCEPT !["worker"] =
                          [id |-> request_queue[Len(request_queue)], result |-> "pending"]]
            /\ request_queue' = SubSeq(request_queue, 1, Len(request_queue) - 1)
            /\ lh' = [lh EXCEPT !.popped =
                        IF mode = "fifo"
                        THEN Append(@, [id |-> request_queue[Len(request_queue)],
                                        behind |-> Len(request_queue) - 1])
                        ELSE @]
            /\ lpc' = [lpc EXCEPT !["worker"] = "process"]
    /\ UNCHANGED <<llm_running, backend_loaded, llm_mutex, requests_this_second,
                   rate_limit_window, results, now, llmFrame>>

\* worker_loop(): after the wait: break, continue, or pop the front request
WorkerPop ==
    /\ lpc["worker"] = "wait_done"
    /\ queue_mutex' = "free"
    /\ IF ~llm_running
       THEN /\ lpc' = [lpc EXCEPT !["worker"] = "exited"]
            /\ UNCHANGED <<request_queue, lreq, lh>>
       ELSE IF request_queue = <<>>
       THEN /\ lpc' = [lpc EXCEPT !["worker"] = "loop"]
            /\ UNCHANGED <<request_queue, lreq, lh>>
       ELSE /\ lreq' = [lreq EXCEPT !["worker"] =
                          [id |-> Head(request_queue), result |-> "pending"]]
            /\ request_queue' = Tail(request_queue)
            /\ lh' = [lh EXCEPT !.popped =
                        IF mode = "fifo"
                        THEN Append(@, [id |-> Head(request_queue),
                                        behind |-> Len(request_queue) - 1])
                        ELSE @]
            /\ lpc' = [lpc EXCEPT !["worker"] = "process"]
    /\ UNCHANGED <<llm_running, backend_loaded, llm_mutex, requests_this_second,
                   rate_limit_window, results, now, llmFrame>>

WorkerProcess_CheckOutsideLock ==
    /\ lpc["worker"] = "process"
    /\ IF ~backend_loaded
       THEN /\ lreq' = [lreq EXCEPT !["worker"].result = "not_loaded"]
            /\ lpc' = [lpc EXCEPT !["worker"] = "complete"]
       ELSE /\ lpc' = [lpc EXCEPT !["worker"] = "generate"]
            /\ UNCHANGED lreq
    /\ UNCHANGED <<llm_running, backend_loaded, llm_mutex, queue_mutex, request_queue,
                   requests_this_second, rate_limit_window, results, lh, now,
                   llmFrame>>

\* worker_loop(): is_loaded() under mutex_, then the call of generate
WorkerProcess ==
    /\ lpc["worker"] = "process"
    /\ llm_mutex = "free"
    /\ IF ~backend_loaded
       THEN /\ lreq' = [lreq EXCEPT !["worker"].result = "not_loaded"]
            /\ lpc' = [lpc EXCEPT !["worker"] = "complete"]
            /\ UNCHANGED llm_mutex
       ELSE /\ llm_mutex' = "worker"
            /\ lpc' = [lpc EXCEPT !["worker"] = "generate"]
            /\ UNCHANGED lreq
    /\ UNCHANGED <<llm_running, backend_loaded, queue_mutex, request_queue,
                   requests_this_second, rate_limit_window, results, lh, now,
                   llmFrame>>

\* worker_loop(): generate returns its result, mutex_ is released
WorkerGenerate ==
    /\ lpc["worker"] = "generate"
    /\ lreq' = [lreq EXCEPT !["worker"].result = "generated"]
    /\ llm_mutex' = "free"
    /\ lpc' = [lpc EXCEPT !["worker"] = "complete"]
    /\ UNCHANGED <<llm_running, backend_loaded, queue_mutex, request_queue,
                   requests_this_second, rate_limit_window, results, lh, now,
                   llmFrame>>

\* worker_loop(): queued->promise.set_value(result)
WorkerComplete ==
    /\ lpc["worker"] = "complete"
    /\ Complete(lreq["worker"].id, lreq["worker"].result)
    /\ lpc' = [lpc EXCEPT !["worker"] = "loop"]
    /\ UNCHANGED <<llm_running, backend_loaded, llm_mutex, queue_mutex,
                   request_queue, requests_this_second, rate_limit_window, lreq,
                   lh, now, llmFrame>>

InitLLM ==
    /\ alerts = <<>>
    /\ count = ZeroCount
    /\ stmt_mutex = "free"
    /\ active_alert_keys = {}
    /\ pc = [t \in Threads |-> "idle"]
    /\ loc = [t \in Threads |-> NoLoc]
    /\ started = {}
    /\ createCalls = {}
    /\ createOk = {}
    /\ createFailed = FALSE
    /\ mode = "llm"
    /\ hist = <<>>
    /\ IoInit

NextLLM ==
    \/ LlmStart
    \/ LlmStopCall
    \/ LlmStopNotify
    \/ LlmStopJoin
    \/ LoadCall
    \/ LoadRun
    \/ UnloadCall
    \/ UnloadRun
    \/ InferSyncCall
    \/ InferSyncLock
    \/ InferSyncGenerate
    \/ InferAsyncCall
    \/ InferAsyncRate
    \/ InferAsyncQueue
    \/ InferAsyncNotify
    \/ LlmAdvance
    \/ WorkerLoop
    \/ WorkerWaitCheck
    \/ WorkerBlock
    \/ WorkerPop
    \/ WorkerProcess
    \/ WorkerGenerate
    \/ WorkerComplete

SpecLLM == InitLLM /\ [][NextLLM]_vars

\* the engine with infer_async as the only way in: start, stop, the worker,
\* the callers of infer_async and of clear_queue
InitInfer ==
    /\ alerts = <<>>
    /\ count = ZeroCount
    /\ stmt_mutex = "free"
    /\ active_alert_keys = {}
    /\ pc = [t \in Threads |-> "idle"]
    /\ loc = [t \in Threads |-> NoLoc]
    /\ started = {}
    /\ createCalls = {}
    /\ createOk = {}
    /\ createFailed = FALSE
    /\ mode = "infer"
    /\ hist = <<>>
    /\ IoInit

NextInfer ==
    \/ LlmStart
    \/ LlmStopCall
    \/ LlmStopNotify
    \/ LlmStopJoin
    \/ LoadRun
    \/ UnloadRun
    \/ InferAsyncCall
    \/ InferAsyncRate
    \/ InferAsyncQueue
    \/ InferAsyncNotify
    \/ ClearQueue
    \/ LlmAdvance
    \/ WorkerLoop
    \/ WorkerWaitCheck
    \/ WorkerBlock
    \/ WorkerPop
    \/ WorkerProcess
    \/ WorkerGenerate
    \/ WorkerComplete

SpecInfer == InitInfer /\ [][NextInfer]_vars

\* the engine as the queue sees it: the callers of infer_async and of
\* clear_queue and the worker, with the pushes and the pops recorded
InitFifo ==
    /\ alerts = <<>>
    /\ count = ZeroCount
    /\ stmt_mutex = "free"
    /\ active_alert_keys = {}
    /\ pc = [t \in Threads |-> "idle"]
    /\ loc = [t \in Threads |-> NoLoc]
    /\ started = {}
    /\ createCalls = {}
    /\ createOk = {}
    /\ createFailed = FALSE
    /\ mode = "fifo"
    /\ hist = <<>>
    /\ IoInit

NextFifo ==
    \/ LlmStart
    \/ LlmStopCall
    \/ LlmStopNotify
    \/ LlmStopJoin
    \/ LoadRun
    \/ UnloadRun
    \/ InferAsyncCall
    \/ InferAsyncRate
    \/ InferAsyncQueue
    \/ InferAsyncNotify
    \/ ClearQueue
    \/ WorkerLoop
    \/ WorkerWaitCheck
    \/ WorkerBlock
    \/ WorkerPop
    \/ WorkerProcess
    \/ WorkerGenerate
    \/ WorkerComplete

SpecFifo == InitFifo /\ [][NextFifo]_vars

\* the worker thread and the thread in stop() are scheduled and a call of
\* infer_async under way runs to its end; whether infer_async or clear_queue
\* is called at all is up to the callers
FairInfer ==
    /\ SpecInfer
    /\ WF_vars(InferAsyncRate)
    /\ WF_vars(InferAsyncQueue)
    /\ WF_vars(InferAsyncNotify)
    /\ WF_vars(WorkerLoop)
    /\ WF_vars(WorkerWaitCheck)
    /\ WF_vars(WorkerBlock)
    /\ WF_vars(WorkerPop)
    /\ SF_vars(WorkerProcess)
    /\ WF_vars(WorkerGenerate)
    /\ WF_vars(WorkerComplete)
    /\ WF_vars(LlmStopNotify)
    /\ WF_vars(LlmStopJoin)
    /\ WF_vars(LoadRun)
    /\ WF_vars(UnloadRun)

(***************************************************************************)
(* LLM engine: properties                                                  *)
(***************************************************************************)
Generators == {"worker", "caller"}

\* C11: from the return of unload_model until a load succeeds no model is
\* loaded and neither the worker nor an infer_sync caller is inside or enters
\* generate, and a request either of them processes in that interval
\* completes as not loaded
C11_NoGenerateAfterUnload ==
    /\ [](lh.unloaded =>
            /\ ~backend_loaded
            /\ \A t \in Generators : lpc[t] # "generate")
    /\ [][\A t \in Generators :
            (lpc[t] # "generate" /\ lpc'[t] = "generate") => ~lh.unloaded]_vars
    /\ [][(lh.unloaded /\ lpc["worker"] = "process" /\ lpc'["worker"] # "process") =>
            (lpc'["worker"] = "complete" /\ lreq'["worker"].result = "not_loaded")]_vars
    /\ [][(lh.unloaded /\ lpc["caller"] = "is_lock" /\ lpc'["caller"] # "is_lock") =>
            results'[lreq["caller"].id] = "not_loaded"]_vars

C27_StopClearsQueue ==
    [][(lpc["main"] = "stop_unload" /\ lpc'["main"] = "idle") =>
         \A i \in lh.atStop : results'[i] = "queue_cleared"]_vars

\* the requests check_rate_limit admitted in the window that started at w
LlmAdmittedIn(w) == {a \in lh.admitted : w <= a.at /\ a.at < w + WindowMs}

\* start of the window a call of check_rate_limit made now falls in
LlmWindowAt == IF now - rate_limit_window >= WindowMs THEN now ELSE rate_limit_window

\* C28: in a window of check_rate_limit at most max_requests_per_sec requests
\* are admitted; a request that comes when the window has admitted that many
\* is completed at once with the error "Rate limit exceeded" and is never in
\* the queue, and no admitted request gets that error
C28_WindowAdmitsAtMostMax ==
    /\ [](Cardinality(LlmAdmittedIn(rate_limit_window)) <= MaxPerSecond)
    /\ [](\A i \in 1..Len(results) :
            results[i] = "rate_limited" =>
              (i \notin Queued /\ \A a \in lh.admitted : a.id # i))
    /\ [][(lpc["caller"] = "ia_rate" /\ lpc'["caller"] # "ia_rate"
            /\ Cardinality(LlmAdmittedIn(LlmWindowAt)) >= MaxPerSecond) =>
            /\ results'[lreq["caller"].id] = "rate_limited"
            /\ request_queue' = request_queue
            /\ lpc'["caller"] = "idle"]_vars

\* a window took its full number of requests and refused the next one
C28_Witness ==
    /\ mode = "infer"
    /\ Cardinality(LlmAdmittedIn(rate_limit_window)) = MaxPerSecond
    /\ \E i \in 1..Len(results) : results[i] = "rate_limited"

\* the place of a request in the order of admission to the queue
Admission(id) == CHOOSE i \in DOMAIN lh.pushed : lh.pushed[i] = id

\* the worker has the request in hand, between its pop and its completion
InHand(id) ==
    lpc["worker"] \in {"process", "generate", "complete"} /\ lreq["worker"].id = id

\* C38: the requests the worker has popped were admitted to the queue, were
\* popped in the order of their admission, each once, and each was completed
\* by the worker before the next was popped
C38_PoppedInAdmissionOrder ==
    /\ \A i \in DOMAIN lh.popped :
         \E j \in DOMAIN lh.pushed : lh.pushed[j] = lh.popped[i].id
    /\ \A i, j \in DOMAIN lh.popped :
         i < j => Admission(lh.popped[i].id) < Admission(lh.popped[j].id)
    /\ \A i \in DOMAIN lh.popped :
         IF i = Len(lh.popped) /\ InHand(lh.popped[i].id)
         THEN results[lh.popped[i].id] = "pending"
         ELSE results[lh.popped[i].id] \in {"generated", "not_loaded"}

\* a request was popped while another waited behind it, and the worker has
\* completed both
C38_Witness ==
    /\ mode = "fifo"
    /\ Len(lh.popped) = 2
    /\ lh.popped[1].behind = 1
    /\ results[lh.popped[1].id] = "generated"
    /\ results[lh.popped[2].id] = "generated"

\* C40: once stop() has cleared running_, the worker leaves its loop and the
\* join in stop() returns
C40_StopTerminates ==
    (lpc["main"] = "stop_notify") ~> (lpc["main"] = "stop_unload" /\ lpc["worker"] = "exited")

\* a request was generated, the model was then unloaded, and a later request
\* popped by the worker has completed as not loaded
C11_Witness ==
    /\ mode = "llm"
    /\ lh.unloaded
    /\ Len(results) >= 2
    /\ results[1] = "generated"
    /\ results[2] = "not_loaded"
    /\ lreq["worker"].id = 2

(***************************************************************************)
(* Configuration store (Config, ConfigManager)                             *)
(***************************************************************************)
cfgFrame == <<kernelVars, now, llmVars, daemonVars, usageVars>>

\* what the file at the configuration path can hold: nothing, text that is
\* not YAML, or YAML with llm.threads and, if has_log_level, log_level
CfgFiles ==
    {[kind |-> "missing", llm_threads |-> 0, has_log_level |-> FALSE, log_level |-> 0],
     [kind |-> "garbage", llm_threads |-> 0, has_log_level |-> FALSE, log_level |-> 0]}
    \cup [kind : {"yaml"}, llm_threads : {0, 8}, has_log_level : {TRUE},
          log_level : {2, 3}]
    \cup [kind : {"yaml"}, llm_threads : {0, 8}, has_log_level : {FALSE},
          log_level : {0}]

\* std::string Config::validate(): the error, "" when valid
ConfigValidate(c) ==
    IF c.socket_backlog <= 0 THEN "socket_backlog must be positive"
    ELSE IF c.socket_timeout_ms <= 0 THEN "socket_timeout_ms must be positive"
    ELSE IF c.llm_context_length <= 0 THEN "llm_context_length must be positive"
    ELSE IF c.llm_threads <= 0 THEN "llm_threads must be positive"
    ELSE IF c.monitor_interval_sec <= 0 THEN "monitor_interval_sec must be positive"
    ELSE IF c.disk_warn_threshold <= 0 \/ c.disk_warn_threshold > 100
      THEN "disk_warn_threshold must be between 0 and 1"
    ELSE IF c.disk_crit_threshold <= 0 \/ c.disk_crit_threshold > 100
      THEN "disk_crit_threshold must be between 0 and 1"
    ELSE IF c.mem_warn_threshold <= 0 \/ c.mem_warn_threshold > 100
      THEN "mem_warn_threshold must be between 0 and 1"
    ELSE IF c.mem_crit_threshold <= 0 \/ c.mem_crit_threshold > 100
      THEN "mem_crit_threshold must be between 0 and 1"
    ELSE ""

\* the Config the YAML of the file gives: a key that is absent leaves the
\* member initialiser
ConfigParse(file) ==
    [ConfigDefaults EXCEPT !.llm_threads = file.llm_threads,
                           !.log_level = IF file.has_log_level THEN file.log_level
                                         ELSE ConfigDefaults.log_level]

\* std::optional<Config> Config::load(path): ok is FALSE for std::nullopt
ConfigLoad(file) ==
    IF file.kind # "yaml" THEN [ok |-> FALSE, config |-> ConfigDefaults]
    ELSE IF ConfigValidate(ConfigParse(file)) # ""
      THEN [ok |-> FALSE, config |-> ConfigDefaults]
    ELSE [ok |-> TRUE, config |-> ConfigParse(file)]

\* the file is rewritten
RewriteFile(f) ==
    /\ cpc["loader"] = "idle"
    /\ cfg_file # f
    /\ cfg_file' = f
    /\ UNCHANGED <<config_, config_path_, cfg_mutex, get_by_ref, cpc, cloc, ch,
                   cfgFrame>>

\* bool ConfigManager::load(path): the call, by a test (caller "none") or by
\* Daemon::initialize
CfgLoadCall(caller) ==
    /\ cpc["loader"] = "idle"
    /\ cpc' = [cpc EXCEPT !["loader"] = "lock"]
    /\ cloc' = [cloc EXCEPT !["loader"] =
                  [NoCfgLoc EXCEPT !.op = "load", !.path = "path", !.caller = caller,
                                   !.snap = config_, !.had = (config_path_ # "")]]
    /\ UNCHANGED <<config_, config_path_, cfg_mutex, cfg_file, get_by_ref, ch,
                   cfgFrame>>

\* the record of a call, kept by the runs that examine single calls
CfgCall(call) == IF mode = "config_calls" THEN call ELSE NoCfgCall

\* load() or reload() returns: to its caller in the daemon, if it has one
CfgReturn(result, loaded) ==
    /\ ch' = [ch EXCEPT !.last = CfgCall([op |-> cloc["loader"].op, ok |-> result,
                                          loaded |-> loaded,
                                          before |-> cloc["loader"].snap,
                                          had |-> cloc["loader"].had,
                                          file |-> ConfigParse(cfg_file),
                                          kind |-> cfg_file.kind,
                                          caller |-> cloc["loader"].caller]),
                        !.installed = IF cpc["loader"] = "assign2"
                                      THEN @ \cup {cloc["loader"].loaded} ELSE @]
    /\ IF cloc["loader"].caller = "none"
       THEN /\ cpc' = [cpc EXCEPT !["loader"] = "idle"]
            /\ cloc' = [cloc EXCEPT !["loader"] = NoCfgLoc]
       ELSE /\ cpc' = [cpc EXCEPT !["loader"] = "daemon_return"]
            /\ cloc' = [cloc EXCEPT !["loader"].ok = result]

\* bool ConfigManager::reload(): the call, by a test (caller "none") or by
\* Daemon::reload_config, and the test of config_path_
CfgReloadCall(caller) ==
    /\ cpc["loader"] = "idle"
    /\ IF config_path_ = ""
       THEN /\ ch' = [ch EXCEPT !.last = CfgCall([op |-> "reload", ok |-> FALSE,
                                                  loaded |-> FALSE,
                                                  before |-> config_,
                                                  had |-> FALSE,
                                                  file |-> ConfigParse(cfg_file),
                                                  kind |-> cfg_file.kind,
                                                  caller |-> caller])]
            /\ IF caller = "none"
               THEN UNCHANGED <<cpc, cloc>>
               ELSE /\ cpc' = [cpc EXCEPT !["loader"] = "daemon_return"]
                    /\ cloc' = [cloc EXCEPT !["loader"] =
                                  [NoCfgLoc EXCEPT !.op = "reload", !.caller = caller]]
       ELSE /\ cpc' = [cpc EXCEPT !["loader"] = "lock"]
            /\ cloc' = [cloc EXCEPT !["loader"] =
                          [NoCfgLoc EXCEPT !.op = "reload", !.path = config_path_,
                                           !.caller = caller, !.snap = config_,
                                           !.had = (config_path_ # "")]]
            /\ UNCHANGED ch
    /\ UNCHANGED <<config_, config_path_, cfg_mutex, cfg_file, get_by_ref,
                   cfgFrame>>

CfgLock_ReloadInstallsDefaults ==
    /\ cpc["loader"] = "lock"
    /\ cfg_mutex = "free"
    /\ LET loaded == ConfigLoad(cfg_file) IN
         /\ cfg_mutex' = "loader"
         /\ cloc' = [cloc EXCEPT !["loader"].loaded = loaded.config,
                                 !["loader"].ok = loaded.ok]
         /\ cpc' = [cpc EXCEPT !["loader"] = "assign1"]
         /\ UNCHANGED ch
    /\ UNCHANGED <<config_, config_path_, cfg_file, get_by_ref, cfgFrame>>

\* load() / reload(): lock mutex_, Config::load; a reload that fails returns,
\* a load that fails goes on to install the defaults
CfgLock ==
    /\ cpc["loader"] = "lock"
    /\ cfg_mutex = "free"
    /\ LET loaded == ConfigLoad(cfg_file) IN
         IF ~loaded.ok /\ cloc["loader"].op = "reload"
         THEN /\ CfgReturn(FALSE, FALSE)
              /\ UNCHANGED cfg_mutex
         ELSE /\ cfg_mutex' = "loader"
              /\ cloc' = [cloc EXCEPT !["loader"].loaded = loaded.config,
                                      !["loader"].ok = loaded.ok]
              /\ cpc' = [cpc EXCEPT !["loader"] = "assign1"]
              /\ UNCHANGED ch
    /\ UNCHANGED <<config_, config_path_, cfg_file, get_by_ref, cfgFrame>>

\* config_ = ..: the members up to llm_threads are copied
CfgAssign1 ==
    /\ cpc["loader"] = "assign1"
    /\ config_' = [config_ EXCEPT !.llm_threads = cloc["loader"].loaded.llm_threads]
    /\ cpc' = [cpc EXCEPT !["loader"] = "assign2"]
    /\ UNCHANGED <<config_path_, cfg_mutex, cfg_file, get_by_ref, cloc, ch,
                   cfgFrame>>

CfgAssign2_KeepLogLevel ==
    /\ cpc["loader"] = "assign2"
    /\ config_' = [cloc["loader"].loaded EXCEPT !.log_level = config_.log_level]
    /\ IF cloc["loader"].ok
       THEN /\ config_path_' = IF cloc["loader"].op = "load"
                               THEN cloc["loader"].path ELSE config_path_
            /\ cpc' = [cpc EXCEPT !["loader"] = "notify"]
            /\ ch' = [ch EXCEPT !.installed = @ \cup {cloc["loader"].loaded}]
            /\ UNCHANGED <<cfg_mutex, cloc>>
       ELSE /\ cfg_mutex' = "free"
            /\ CfgReturn(FALSE, FALSE)
            /\ UNCHANGED config_path_
    /\ UNCHANGED <<cfg_file, get_by_ref, cfgFrame>>

\* config_ = ..: the last members are copied; a failed load returns false
CfgAssign2 ==
    /\ cpc["loader"] = "assign2"
    /\ config_' = cloc["loader"].loaded
    /\ IF cloc["loader"].ok
       THEN /\ config_path_' = IF cloc["loader"].op = "load"
                               THEN cloc["loader"].path ELSE config_path_
            /\ cpc' = [cpc EXCEPT !["loader"] = "notify"]
            /\ ch' = [ch EXCEPT !.installed = @ \cup {cloc["loader"].loaded}]
            /\ UNCHANGED <<cfg_mutex, cloc>>
       ELSE /\ cfg_mutex' = "free"
            /\ CfgReturn(FALSE, FALSE)
            /\ UNCHANGED config_path_
    /\ UNCHANGED <<cfg_file, get_by_ref, cfgFrame>>

\* notify_callbacks() under mutex_, and the return of true
CfgNotify ==
    /\ cpc["loader"] = "notify"
    /\ cfg_mutex' = "free"
    /\ CfgReturn(TRUE, TRUE)
    /\ UNCHANGED <<config_, config_path_, cfg_file, get_by_ref, cfgFrame>>

\* Logger::set_level from config.log_level
LogLevelOf(log_level) ==
    CASE log_level = 0 -> "DEBUG"
      [] log_level = 1 -> "INFO"
      [] log_level = 2 -> "WARN"
      [] log_level = 3 -> "ERROR"
      [] OTHER -> "INFO"

DaemonReturn_PassesLoadResult ==
    /\ cpc["loader"] = "daemon_return"
    /\ ch' = [ch EXCEPT !.daemon =
                [op |-> cloc["loader"].caller,
                 ok |-> cloc["loader"].ok,
                 level |-> IF cloc["loader"].caller = "initialize" \/ cloc["loader"].ok
                           THEN LogLevelOf(config_.log_level) ELSE ch.daemon.level]]
    /\ cpc' = [cpc EXCEPT !["loader"] = "idle"]
    /\ cloc' = [cloc EXCEPT !["loader"] = NoCfgLoc]
    /\ UNCHANGED <<config_, config_path_, cfg_mutex, cfg_file, get_by_ref,
                   cfgFrame>>

\* Daemon::initialize after load() returned: set the log level, return true;
\* Daemon::reload_config after reload() returned: its result
DaemonReturn ==
    /\ cpc["loader"] = "daemon_return"
    /\ ch' = [ch EXCEPT !.daemon =
                [op |-> cloc["loader"].caller,
                 ok |-> IF cloc["loader"].caller = "initialize" THEN TRUE
                        ELSE cloc["loader"].ok,
                 level |-> IF cloc["loader"].caller = "initialize" \/ cloc["loader"].ok
                           THEN LogLevelOf(config_.log_level) ELSE ch.daemon.level]]
    /\ cpc' = [cpc EXCEPT !["loader"] = "idle"]
    /\ cloc' = [cloc EXCEPT !["loader"] = NoCfgLoc]
    /\ UNCHANGED <<config_, config_path_, cfg_mutex, cfg_file, get_by_ref,
                   cfgFrame>>

\* ConfigManager::get(): the call
GetCall ==
    /\ cpc["reader"] = "idle"
    /\ cpc' = [cpc EXCEPT !["reader"] = "get_lock"]
    /\ cloc' = [cloc EXCEPT !["reader"] = NoCfgLoc]
    /\ UNCHANGED <<config_, config_path_, cfg_mutex, cfg_file, get_by_ref, ch,
                   cfgFrame>>

\* get(): under mutex_, return config_: a copy made under the lock, or a
\* reference the caller reads after the lock is gone
GetLock ==
    /\ cpc["reader"] = "get_lock"
    /\ cfg_mutex = "free"
    /\ IF get_by_ref
       THEN /\ cpc' = [cpc EXCEPT !["reader"] = "read1"]
            /\ UNCHANGED cloc
       ELSE /\ cloc' = [cloc EXCEPT !["reader"].snap = config_]
            /\ cpc' = [cpc EXCEPT !["reader"] = "got"]
    /\ UNCHANGED <<config_, config_path_, cfg_mutex, cfg_file, get_by_ref, ch,
                   cfgFrame>>

\* the caller reads a member through the reference
GetRead1 ==
    /\ cpc["reader"] = "read1"
    /\ cloc' = [cloc EXCEPT !["reader"].snap.llm_threads = config_.llm_threads]
    /\ cpc' = [cpc EXCEPT !["reader"] = "read2"]
    /\ UNCHANGED <<config_, config_path_, cfg_mutex, cfg_file, get_by_ref, ch,
                   cfgFrame>>

\* the caller reads another member through the reference
GetRead2 ==
    /\ cpc["reader"] = "read2"
    /\ cloc' = [cloc EXCEPT !["reader"].snap.log_level = config_.log_level]
    /\ cpc' = [cpc EXCEPT !["reader"] = "got"]
    /\ UNCHANGED <<config_, config_path_, cfg_mutex, cfg_file, get_by_ref, ch,
                   cfgFrame>>

\* the caller is done with its snapshot
GetDone ==
    /\ cpc["reader"] = "got"
    /\ cpc' = [cpc EXCEPT !["reader"] = "idle"]
    /\ cloc' = [cloc EXCEPT !["reader"] = NoCfgLoc]
    /\ UNCHANGED <<config_, config_path_, cfg_mutex, cfg_file, get_by_ref, ch,
                   cfgFrame>>

InitConfig ==
    /\ alerts = <<>>
    /\ count = ZeroCount
    /\ stmt_mutex = "free"
    /\ active_alert_keys = {}
    /\ pc = [t \in Threads |-> "idle"]
    /\ loc = [t \in Threads |-> NoLoc]
    /\ started = {}
    /\ createCalls = {}
    /\ createOk = {}
    /\ createFailed = FALSE
    /\ mode = "config"
    /\ hist = <<>>
    /\ IoInit

NextConfig ==
    \/ \E f \in CfgFiles : RewriteFile(f)
    \/ CfgLoadCall("none")
    \/ CfgReloadCall("none")
    \/ CfgLock
    \/ CfgAssign1
    \/ CfgAssign2
    \/ CfgNotify
    \/ GetCall
    \/ GetLock
    \/ GetRead1
    \/ GetRead2
    \/ GetDone

SpecConfig == InitConfig /\ [][NextConfig]_vars

\* Config::validate() called on a Config object, as the unit tests call it
ValidateCall ==
    /\ mode = "validate"
    /\ cloc["loader"].op = "none"
    /\ cloc' = [cloc EXCEPT !["loader"] =
                  [@ EXCEPT !.op = "validate",
                            !.error = ConfigValidate(cloc["loader"].loaded)]]
    /\ UNCHANGED <<config_, config_path_, cfg_mutex, cfg_file, get_by_ref, cpc, ch,
                   cfgFrame>>

InitValidate ==
    /\ alerts = <<>>
    /\ count = ZeroCount
    /\ stmt_mutex = "free"
    /\ active_alert_keys = {}
    /\ pc = [t \in Threads |-> "idle"]
    /\ loc = [t \in Threads |-> NoLoc]
    /\ started = {}
    /\ createCalls = {}
    /\ createOk = {}
    /\ createFailed = FALSE
    /\ mode = "validate"
    /\ hist = <<>>
    /\ IoInit

NextValidate == ValidateCall

SpecValidate == InitValidate /\ [][NextValidate]_vars

\* the call of validate() has returned
Validated == cloc["loader"].op = "validate"

\* the Config validate() was called on
Validatee == cloc["loader"].loaded

\* the members as C25 wants them
WantedValid(c) ==
    /\ c.socket_backlog > 0
    /\ c.socket_timeout_ms > 0
    /\ c.max_requests_per_sec > 0
    /\ c.log_level \in 0..4
    /\ 0 < c.disk_warn_threshold
    /\ c.disk_warn_threshold < c.disk_crit_threshold
    /\ c.disk_crit_threshold <= 100
    /\ 0 < c.mem_warn_threshold
    /\ c.mem_warn_threshold < c.mem_crit_threshold
    /\ c.mem_crit_threshold <= 100

\* C25: validate() returns a non-empty error whenever socket_backlog,
\* socket_timeout_ms or max_requests_per_sec is not positive, log_level is
\* outside 0..4 or a warn/critical pair does not satisfy
\* 0 < warn < critical <= 1; it accepts the defaults with any log_level of 0..4
C25_ValidateRejects ==
    Validated =>
      /\ ~WantedValid(Validatee) => cloc["loader"].error # ""
      /\ (\E l \in 0..4 : Validatee = [ConfigDefaults EXCEPT !.log_level = l])
            => cloc["loader"].error = ""

\* the configuration store with one caller at a time: tests, Daemon::initialize
\* and Daemon::reload_config
InitConfigCalls ==
    /\ alerts = <<>>
    /\ count = ZeroCount
    /\ stmt_mutex = "free"
    /\ active_alert_keys = {}
    /\ pc = [t \in Threads |-> "idle"]
    /\ loc = [t \in Threads |-> NoLoc]
    /\ started = {}
    /\ createCalls = {}
    /\ createOk = {}
    /\ createFailed = FALSE
    /\ mode = "config_calls"
    /\ hist = <<>>
    /\ IoInit

NextConfigCalls ==
    \/ \E f \in CfgFiles : RewriteFile(f)
    \/ \E caller \in {"none", "initialize"} : CfgLoadCall(caller)
    \/ \E caller \in {"none", "reload_config"} : CfgReloadCall(caller)
    \/ CfgLock
    \/ CfgAssign1
    \/ CfgAssign2
    \/ CfgNotify
    \/ DaemonReturn

SpecConfigCalls == InitConfigCalls /\ [][NextConfigCalls]_vars

(***************************************************************************)
(* Configuration store: properties                                         *)
(***************************************************************************)
\* the records that have been installed whole, and the one being installed
WholeRecords ==
    ch.installed \cup
      (IF cpc["loader"] \in {"assign1", "assign2"} THEN {cloc["loader"].loaded} ELSE {})

\* C12: every snapshot a reader has obtained from get() is a record that was
\* installed whole or the record a running load or reload installs
C12_SnapshotIsWhole ==
    cpc["reader"] = "got" => cloc["reader"].snap \in WholeRecords

\* the last load() or reload() has returned to whoever called it
CfgReturned(op) == cpc["loader"] = "idle" /\ ch.last.op = op

\* .. and it was made after a load had succeeded, and found no valid file
FailedAfterInstall(op) == CfgReturned(op) /\ ch.last.had /\ ~ch.last.loaded

\* C22 as stated: when load(path) or reload() fails after a record has been
\* installed, the record installed before stays the one get() returns, and
\* the operation reports failure
C22_FailureKeepsRecord ==
    \A op \in {"load", "reload"} :
      FailedAfterInstall(op) => (~ch.last.ok /\ config_ = ch.last.before)

\* what the code keeps of C22: a reload() that fails leaves the record
\* installed before and reports failure; a load(path) that fails installs the
\* default record in its place and reports failure
C22_FailedReloadKeepsFailedLoadDefaults ==
    /\ FailedAfterInstall("reload") => (~ch.last.ok /\ config_ = ch.last.before)
    /\ FailedAfterInstall("load") => (~ch.last.ok /\ config_ = ConfigDefaults)

C22_Witness ==
    /\ FailedAfterInstall("reload")
    /\ ch.last.kind = "yaml"
    /\ config_ # ConfigDefaults
    /\ config_ # ch.last.file

\* C23: an initial load of a missing file: load returns false, get() returns
\* the defaults and Daemon::initialize returns true
C23_MissingFileGivesDefaults ==
    (CfgReturned("load") /\ ch.last.caller = "initialize" /\ ~ch.last.had
       /\ ch.last.kind = "missing") =>
      /\ ~ch.last.ok
      /\ config_ = ConfigDefaults
      /\ ch.daemon.op = "initialize"
      /\ ch.daemon.ok

C23_Witness ==
    /\ CfgReturned("load")
    /\ ch.last.caller = "initialize"
    /\ ~ch.last.had
    /\ ch.last.kind = "missing"
    /\ ch.daemon.ok

\* C24: after the file at the loaded path was rewritten with valid content
\* and reload() succeeded, get() gives exactly the values parsed from the
\* file, and Daemon::reload_config reports success with that log level set
C24_ReloadInstallsFile ==
    (CfgReturned("reload") /\ ch.last.ok) =>
      /\ config_ = ch.last.file
      /\ ch.last.kind = "yaml"
      /\ ch.last.caller = "reload_config" =>
            (ch.daemon.ok /\ ch.daemon.level = LogLevelOf(ch.last.file.log_level))

C24_Witness ==
    /\ CfgReturned("reload")
    /\ ch.last.ok
    /\ ch.last.caller = "reload_config"
    /\ ch.last.before.log_level = 3
    /\ config_.log_level = 2
    /\ ch.daemon.level = "WARN"

\* C37: while notify_callbacks() runs the listeners, a record read from the
\* file by a successful load or reload is installed, it is the record they are
\* given, and mutex_ is not held, so that a listener may call get()
C37_ListenersRunUnlocked ==
    cpc["loader"] = "notify" =>
      /\ cloc["loader"].ok
      /\ config_ = cloc["loader"].loaded
      /\ cfg_mutex = "free"

(***************************************************************************)
(* Monitor: CPU and memory usage (SystemMonitor::check_health)             *)
(***************************************************************************)
usageFrame == <<kernelVars, llmVars, cfgVars, daemonVars>>

\* the uint64_t arithmetic of get_memory_usage wraps; the model's words wrap
\* at WordMod, and its readings are the byte counts (value * 1024) themselves
WordMod == 65536

\* /proc/stat: idle + iowait and the sum of the other columns of the cpu line
CpuReadings == {0, 10, 30}

\* /proc/meminfo, in bytes: MemTotal, MemAvailable, MemFree + Buffers + Cached
MemReadings == {0, 1024, 4096}

\* milliseconds between two calls of check_health
Elapses == {50, 100}

Max(a, b) == IF a >= b THEN a ELSE b
Min(a, b) == IF a <= b THEN a ELSE b

\* the whole part of a / b, b # 0
Quotient(a, b) == IF b > 0 THEN a \div b ELSE (0 - a) \div (0 - b)

\* (1.0 - idle_diff / total_diff) * 100.0, clamped to [0, 100]: its whole part
CpuPercent(idle_diff, total_diff) ==
    Max(0, Min(100, Quotient((total_diff - idle_diff) * 100, total_diff)))

\* what get_cpu_usage() returns for the readings
GetCpuUsage(total_idle, total, elapsed) ==
    IF cpu_first_call_ \/ elapsed < 100 THEN 0
    ELSE IF total - last_cpu_total_ = 0 THEN 0
    ELSE CpuPercent(total_idle - last_cpu_idle_, total - last_cpu_total_)

\* used of get_memory_usage(): total - available in unsigned arithmetic
MemoryUsed(mem_total, mem_available, fallback) ==
    IF mem_available > 0 THEN (mem_total - mem_available) % WordMod
    ELSE (mem_total - fallback) % WordMod

\* memory_usage_percent of check_health(): its whole part
MemoryPercent(mem_total, used) ==
    IF mem_total > 0 THEN (used * 100) \div mem_total ELSE 0

\* check_health(): get_cpu_usage(), which moves the saved readings on, and
\* get_memory_usage()
CheckHealth(total_idle, total_non_idle, mem_total, mem_available, fallback, dt) ==
    /\ mode = "usage"
    /\ health.calls < MaxChecks
    /\ now' = now + dt
    /\ health' = [calls |-> health.calls + 1,
                  cpu_usage_percent |->
                    GetCpuUsage(total_idle, total_idle + total_non_idle,
                                now' - last_cpu_time_),
                  memory_usage_percent |->
                    MemoryPercent(mem_total,
                                  MemoryUsed(mem_total, mem_available, fallback)),
                  first |-> cpu_first_call_,
                  elapsed |-> now' - last_cpu_time_]
    /\ cpu_first_call_' = FALSE
    /\ last_cpu_idle_' = total_idle
    /\ last_cpu_total_' = total_idle + total_non_idle
    /\ last_cpu_time_' = now'
    /\ UNCHANGED usageFrame

InitUsage ==
    /\ alerts = <<>>
    /\ count = ZeroCount
    /\ stmt_mutex = "free"
    /\ active_alert_keys = {}
    /\ pc = [t \in Threads |-> "idle"]
    /\ loc = [t \in Threads |-> NoLoc]
    /\ started = {}
    /\ createCalls = {}
    /\ createOk = {}
    /\ createFailed = FALSE
    /\ mode = "usage"
    /\ hist = <<>>
    /\ IoInit

NextUsage ==
    \E total_idle, total_non_idle \in CpuReadings :
      \E mem_total, mem_available \in MemReadings :
        \E fallback \in (IF mem_available > 0 THEN {0} ELSE MemReadings) :
          \E dt \in Elapses :
            CheckHealth(total_idle, total_non_idle, mem_total, mem_available,
                        fallback, dt)

SpecUsage == InitUsage /\ [][NextUsage]_vars

\* C31: the CPU and the memory usage percent of every health snapshot lie in
\* [0, 100], and the CPU value is 0 on the first call and on a call less than
\* 100 ms after the one before
C31_UsageInRange ==
    health.calls > 0 =>
      /\ health.cpu_usage_percent \in 0..100
      /\ health.memory_usage_percent \in 0..100
      /\ (health.first \/ health.elapsed < 100) => health.cpu_usage_percent = 0

\* the part of C31 about the CPU value
C31_CpuInRange ==
    health.calls > 0 =>
      /\ health.cpu_usage_percent \in 0..100
      /\ (health.first \/ health.elapsed < 100) => health.cpu_usage_percent = 0

(***************************************************************************)
(* Alert store: one caller, call by call                                   *)
(***************************************************************************)
INVALID_PARAMS == -32602
ALERT_NOT_FOUND == 103

\* Response::ok / Response::err
ResponseOk == [success |-> TRUE, error_code |-> SuccessCode]
ResponseErr(code) == [success |-> FALSE, error_code |-> code]

\* the uuid parameter of alerts.dismiss: -1 stands for params without "uuid",
\* 0 for a uuid no row has
NoUuid == -1

\* Handlers::handle_alerts_dismiss up to the call of dismiss_alert
HandleAlertsDismiss(t, uuid) ==
    /\ pc[t] = "idle"
    /\ IF uuid = NoUuid
       THEN /\ loc' = [loc EXCEPT ![t] =
                         [NoLoc EXCEPT !.uuid = uuid, !.op = "alerts.dismiss",
                                       !.pre = Pre, !.ret = "returned",
                                       !.resp = ResponseErr(INVALID_PARAMS)]]
            /\ UNCHANGED pc
       ELSE /\ loc' = [loc EXCEPT ![t] =
                         [NoLoc EXCEPT !.uuid = uuid, !.op = "alerts.dismiss",
                                       !.pre = Pre, !.ret = "had_result"]]
            /\ pc' = [pc EXCEPT ![t] = "dis_get"]
    /\ UNCHANGED <<alerts, count, stmt_mutex>>
    /\ UNCHANGED storeFrame

HandleAlertsDismissResult_AlwaysOk(t) ==
    /\ pc[t] = "had_result"
    /\ pc' = [pc EXCEPT ![t] = "idle"]
    /\ loc' = [loc EXCEPT ![t].resp = ResponseOk, ![t].ret = "returned"]
    /\ UNCHANGED <<alerts, count, stmt_mutex>>
    /\ UNCHANGED storeFrame

\* handle_alerts_dismiss after dismiss_alert returned
HandleAlertsDismissResult(t) ==
    /\ pc[t] = "had_result"
    /\ pc' = [pc EXCEPT ![t] = "idle"]
    /\ loc' = [loc EXCEPT ![t].resp = IF loc[t].res THEN ResponseOk
                                      ELSE ResponseErr(ALERT_NOT_FOUND),
                          ![t].ret = "returned"]
    /\ UNCHANGED <<alerts, count, stmt_mutex>>
    /\ UNCHANGED storeFrame

\* the alert store after initialize() on an existing table, and one caller
\* whose calls are recorded
InitCalls ==
    /\ alerts \in InitialTables
    /\ count = LoadInitialCounters(alerts)
    /\ stmt_mutex = "free"
    /\ active_alert_keys = {}
    /\ pc = [t \in Threads |-> "idle"]
    /\ loc = [t \in Threads |-> NoLoc]
    /\ started = {}
    /\ createCalls = {}
    /\ createOk = {}
    /\ createFailed = FALSE
    /\ mode = "calls"
    /\ hist = <<>>
    /\ IoInit

NextCalls ==
    \/ StoreCall("c1")
    \/ StoreStep("c1")
    \/ \E uuid \in NoUuid..Len(alerts) : HandleAlertsDismiss("c1", uuid)
    \/ HandleAlertsDismissResult("c1")

SpecCalls == InitCalls /\ [][NextCalls]_vars

(***************************************************************************)
(* Alert store: properties of single calls                                 *)
(***************************************************************************)
\* the caller's record of its last call
Call == loc["c1"]

\* the call of op has returned to the caller
Returned(op) == pc["c1"] = "idle" /\ Call.ret = "returned" /\ Call.op = op

\* the row the call named existed when the call started
RowExisted == Call.uuid \in DOMAIN Call.pre.alerts

PriorStatus == Call.pre.alerts[Call.uuid].status

\* the table is the one the call found, but for the named row's status
RowSetTo(status) == alerts = [Call.pre.alerts EXCEPT ![Call.uuid].status = status]

\* the counters are those the call found, with d added to the counter of the
\* severity and to the total
CountersMoved(severity, d) ==
    count = [Call.pre.count EXCEPT ![CounterOf(severity)] = @ + d, !.total = @ + d]

NothingChanged == alerts = Call.pre.alerts /\ count = Call.pre.count

\* C13 as stated: acknowledge(id) returns true, sets the row ACKNOWLEDGED and
\* decrements the severity counter and the total by one if and only if the row
\* exists and is ACTIVE; otherwise it returns false and changes nothing
C13_AcknowledgeIffActive ==
    Returned("acknowledge") =>
      IF RowExisted /\ PriorStatus = "ACTIVE"
      THEN /\ Call.res
           /\ RowSetTo("ACKNOWLEDGED")
           /\ CountersMoved(Call.pre.alerts[Call.uuid].severity, -1)
      ELSE ~Call.res /\ NothingChanged

\* C13 amended: acknowledge(id) returns true only for an existing ACTIVE row,
\* and then the row is ACKNOWLEDGED and the severity counter and the total are
\* one lower; whenever it returns false (the row is missing or not ACTIVE, or
\* the UPDATE statement failed) no row and no counter has changed
C13_AcknowledgeTrueOnlyIfActive ==
    Returned("acknowledge") =>
      IF Call.res
      THEN /\ RowExisted /\ PriorStatus = "ACTIVE"
           /\ RowSetTo("ACKNOWLEDGED")
           /\ CountersMoved(Call.pre.alerts[Call.uuid].severity, -1)
      ELSE NothingChanged

C13_Witness ==
    /\ Returned("acknowledge")
    /\ Call.res
    /\ Call.pre.count.total = 2
    /\ count.total = 1

\* C14 as stated: acknowledge-all turns every ACTIVE row and no other row
\* ACKNOWLEDGED, returns the number of rows it changed, and on return the four
\* severity counters and the total are zero
C14_AcknowledgeAllZeroes ==
    Returned("acknowledge_all") =>
      /\ alerts = [i \in DOMAIN Call.pre.alerts |->
                     IF Call.pre.alerts[i].status = "ACTIVE"
                     THEN [Call.pre.alerts[i] EXCEPT !.status = "ACKNOWLEDGED"]
                     ELSE Call.pre.alerts[i]]
      /\ Call.n = Cardinality({i \in DOMAIN Call.pre.alerts :
                                 Call.pre.alerts[i].status = "ACTIVE"})
      /\ count = ZeroCount

C16_DismissMissingIsNotFound ==
    (Returned("alerts.dismiss") /\ Call.uuid # NoUuid /\ ~RowExisted) =>
      /\ ~Call.res
      /\ Call.resp = [success |-> FALSE, error_code |-> 103]
      /\ NothingChanged

C16_Witness ==
    /\ Returned("alerts.dismiss")
    /\ Call.uuid = 0
    /\ Call.resp.error_code = ALERT_NOT_FOUND
    /\ Len(alerts) > 0

\* C17: create(alert) that succeeds returns the persisted alert under an id
\* no row had, and the severity counter and the total go up by one exactly
\* when its status is ACTIVE; when the insert fails it returns none and no
\* row and no counter changes
C17_CreateCounts ==
    Returned("create") =>
      IF Call.res
      THEN /\ alerts = Append(Call.pre.alerts, Call.alert)
           /\ Len(alerts) \notin DOMAIN Call.pre.alerts
           /\ IF Call.alert.status = "ACTIVE"
              THEN CountersMoved(Call.alert.severity, 1)
              ELSE count = Call.pre.count
      ELSE NothingChanged

C17_Witness ==
    /\ Returned("create")
    /\ Call.res
    /\ Call.alert.status = "ACKNOWLEDGED"
    /\ Call.pre.count.total = 1
    /\ count.total = 1

(***************************************************************************)
(* Alert store: get_alerts                                                 *)
(***************************************************************************)
\* rows of the alerts table as get_alerts sees them: the timestamp column is
\* the text format_utc_time wrote, whole seconds, here the number of seconds
ListKinds ==
    {[severity |-> "WARNING", category |-> "CPU", source |-> "monitor"],
     [severity |-> "CRITICAL", category |-> "CPU", source |-> "test"],
     [severity |-> "WARNING", category |-> "SYSTEM", source |-> "test"]}

ListRows ==
    {[severity |-> k.severity, category |-> k.category, source |-> k.source,
      status |-> st, timestamp |-> ts] :
       k \in ListKinds, st \in Statuses, ts \in {1, 2}}

ListTables == UNION {[1..n -> ListRows] : n \in 0..MaxListRows}

Filters ==
    [severity : {"none", "WARNING"}, category : {"none", "CPU"},
     status : {"none", "ACTIVE", "DISMISSED"}, source : {"none", "test"},
     include_dismissed : BOOLEAN]

\* the WHERE clause get_alerts builds
Selects_DismissedNeverFiltered(row, f) ==
    /\ f.severity # "none" => row.severity = f.severity
    /\ f.category # "none" => row.category = f.category
    /\ f.status # "none" => row.status = f.status
    /\ f.source # "none" => row.source = f.source

Selects(row, f) ==
    /\ f.severity # "none" => row.severity = f.severity
    /\ f.category # "none" => row.category = f.category
    /\ IF f.status # "none" THEN row.status = f.status
       ELSE ~f.include_dismissed => row.status # "DISMISSED"
    /\ f.source # "none" => row.source = f.source

\* ORDER BY timestamp DESC: the orders the statement may step through the
\* selected rows in, each a sequence of row numbers
Orders(f) ==
    LET sel == {i \in DOMAIN alerts : Selects(alerts[i], f)} IN
      {o \in [1..Cardinality(sel) -> sel] :
         /\ \A i, j \in DOMAIN o : i # j => o[i] # o[j]
         /\ \A i, j \in DOMAIN o :
              i < j => alerts[o[i]].timestamp >= alerts[o[j]].timestamp}

\* std::vector<Alert> get_alerts(filter): a statement that cannot be prepared
\* gives no rows, a step that fails ends the list early; the table is not
\* changed, so one call per table is examined
GetAlerts(t, f) ==
    /\ pc[t] = "idle"
    /\ loc[t].op = "none"
    /\ \E o \in Orders(f), n \in 0..Cardinality(DOMAIN alerts), ok \in BOOLEAN :
         /\ n <= Len(o)
         /\ ok => n = Len(o)
         /\ loc' = [loc EXCEPT ![t] =
                      [NoLoc EXCEPT !.op = "list", !.filter = f, !.res = ok,
                                    !.list = SubSeq(o, 1, n), !.ret = "returned"]]
    /\ UNCHANGED <<pc, alerts, count, stmt_mutex>>
    /\ UNCHANGED storeFrame

\* a table and one caller of get_alerts
InitList ==
    /\ alerts \in ListTables
    /\ count = ZeroCount
    /\ stmt_mutex = "free"
    /\ active_alert_keys = {}
    /\ pc = [t \in Threads |-> "idle"]
    /\ loc = [t \in Threads |-> NoLoc]
    /\ started = {}
    /\ createCalls = {}
    /\ createOk = {}
    /\ createFailed = FALSE
    /\ mode = "calls"
    /\ hist = <<>>
    /\ IoInit

NextList == \E f \in Filters : GetAlerts("c1", f)

SpecList == InitList /\ [][NextList]_vars

(***************************************************************************)
(* Alert store: properties of get_alerts                                   *)
(***************************************************************************)
\* the row matches every field of the filter that is set
MatchesSetFields(row, f) ==
    /\ f.severity # "none" => row.severity = f.severity
    /\ f.category # "none" => row.category = f.category
    /\ f.status # "none" => row.status = f.status
    /\ f.source # "none" => row.source = f.source

Listed == {Call.list[i] : i \in DOMAIN Call.list}

NoRowTwice == \A i, j \in DOMAIN Call.list : i # j => Call.list[i] # Call.list[j]

NewestFirst ==
    \A i, j \in DOMAIN Call.list :
      i < j => alerts[Call.list[i]].timestamp >= alerts[Call.list[j]].timestamp

\* C18 as stated: list(filter) returns exactly the rows that match every set
\* filter field, newest first, and with include-dismissed false no DISMISSED
\* row
C18_ListMatchesFilter ==
    Returned("list") =>
      /\ NoRowTwice
      /\ NewestFirst
      /\ IF Call.filter.include_dismissed
         THEN Listed = {i \in DOMAIN alerts : MatchesSetFields(alerts[i], Call.filter)}
         ELSE Listed = {i \in DOMAIN alerts :
                          /\ MatchesSetFields(alerts[i], Call.filter)
                          /\ alerts[i].status # "DISMISSED"}

\* C18 amended: list(filter) returns each row at most once, newest first;
\* every returned row matches every set filter field and, when no status is
\* set and include-dismissed is false, is not DISMISSED; when the query runs
\* to its end every such row is returned
C18_ListMatchesFilterUnlessStatusSet ==
    Returned("list") =>
      LET wanted == {i \in DOMAIN alerts :
                       /\ MatchesSetFields(alerts[i], Call.filter)
                       /\ (Call.filter.status = "none" /\ ~Call.filter.include_dismissed)
                            => alerts[i].status # "DISMISSED"} IN
        /\ NoRowTwice
        /\ NewestFirst
        /\ Listed \subseteq wanted
        /\ Call.res => Listed = wanted

C18_Witness ==
    /\ Returned("list")
    /\ Call.res
    /\ Call.filter.status = "DISMISSED"
    /\ ~Call.filter.include_dismissed
    /\ Len(Call.list) = 2
    /\ alerts[Call.list[1]].timestamp > alerts[Call.list[2]].timestamp

(***************************************************************************)
(* Daemon: run(), start_services(), stop_services()                        *)
(***************************************************************************)
daemonFrame == <<kernelVars, now, llmVars, cfgVars, usageVars>>

\* priorities a service may declare
Priorities == {10, 50}

RECURSIVE Reverse(_)
Reverse(q) == IF q = <<>> THEN <<>> ELSE Append(Reverse(Tail(q)), Head(q))

\* the arrangements q of the elements of services
IsArrangement(q, services) ==
    /\ Len(q) = Len(services)
    /\ \A i \in DOMAIN services :
         Cardinality({j \in DOMAIN q : q[j] = services[i]}) = 1

\* what std::sort with the comparison a->priority() > b->priority() may
\* leave in services_: services of equal priority in any order
Sorted(services) ==
    {q \in [DOMAIN services -> {services[i] : i \in DOMAIN services}] :
       /\ IsArrangement(q, services)
       /\ \A i, j \in DOMAIN q : i < j => q[i].priority >= q[j].priority}

\* void Daemon::register_service(service), before run()
RegisterService(priority) ==
    /\ dpc = "idle"
    /\ Len(services_) < MaxServices
    /\ services_' = Append(services_, [id |-> Len(services_) + 1, priority |-> priority])
    /\ UNCHANGED <<svc_running, running_, shutdown_requested_, dpc, dloc, dlog,
                   run_result, g_shutdown_requested, daemonFrame>>

\* signal_handler(SIGTERM or SIGINT)
SignalShutdown ==
    /\ ~g_shutdown_requested
    /\ dpc # "returned"
    /\ g_shutdown_requested' = TRUE
    /\ UNCHANGED <<services_, svc_running, running_, shutdown_requested_, dpc,
                   dloc, dlog, run_result, daemonFrame>>

\* void Daemon::reset(), called when run() is not under way: stop_services()
\* finds no running service, services_ is cleared and the flags are reset
Reset ==
    /\ dpc \in {"idle", "returned"}
    /\ svc_running = {}
    /\ services_' = <<>>
    /\ shutdown_requested_' = FALSE
    /\ running_' = FALSE
    /\ dpc' = "idle"
    /\ dloc' = NoDaemonLoc
    /\ dlog' = <<>>
    /\ run_result' = -1
    /\ UNCHANGED <<svc_running, g_shutdown_requested, daemonFrame>>

\* void Daemon::request_shutdown(), as handle_shutdown calls it
RequestShutdown ==
    /\ ~shutdown_requested_
    /\ dpc # "returned"
    /\ shutdown_requested_' = TRUE
    /\ UNCHANGED <<services_, svc_running, running_, dpc, dloc, dlog, run_result,
                   g_shutdown_requested, daemonFrame>>

StartServicesSort_Unsorted ==
    /\ dpc = "idle"
    /\ dloc' = [service_ptrs |-> services_, i |-> 1, failed |-> FALSE]
    /\ dpc' = "starting"
    /\ UNCHANGED <<services_, svc_running, running_, shutdown_requested_, dlog,
                   run_result, g_shutdown_requested, daemonFrame>>

\* run() enters start_services(): sort services_ in place, copy the pointers
StartServicesSort ==
    /\ dpc = "idle"
    /\ \E q \in Sorted(services_) :
         /\ services_' = q
         /\ dloc' = [service_ptrs |-> q, i |-> 1, failed |-> FALSE]
    /\ dpc' = "starting"
    /\ UNCHANGED <<svc_running, running_, shutdown_requested_, dlog, run_result,
                   g_shutdown_requested, daemonFrame>>

\* stop_services() copies the pointers of services_ back to front
StopServicesCopy == [dloc EXCEPT !.service_ptrs = Reverse(services_), !.i = 1]

StartService_ContinueOnFailure ==
    /\ dpc = "starting"
    /\ dloc.i <= Len(dloc.service_ptrs)
    /\ LET service == dloc.service_ptrs[dloc.i] IN
         \E ok \in BOOLEAN :
           /\ dlog' = Append(dlog, [ev |-> "start", id |-> service.id, ok |-> ok])
           /\ svc_running' = IF ok THEN svc_running \cup {service.id} ELSE svc_running
           /\ dloc' = [dloc EXCEPT !.i = @ + 1]
           /\ UNCHANGED dpc
    /\ UNCHANGED <<services_, running_, shutdown_requested_, run_result,
                   g_shutdown_requested, daemonFrame>>

\* start_services(): service_ptr->start(); a failure goes to stop_services()
StartService ==
    /\ dpc = "starting"
    /\ dloc.i <= Len(dloc.service_ptrs)
    /\ LET service == dloc.service_ptrs[dloc.i] IN
         \E ok \in BOOLEAN :
           /\ dlog' = Append(dlog, [ev |-> "start", id |-> service.id, ok |-> ok])
           /\ IF ok
              THEN /\ svc_running' = svc_running \cup {service.id}
                   /\ dloc' = [dloc EXCEPT !.i = @ + 1]
                   /\ UNCHANGED dpc
              ELSE /\ dloc' = [StopServicesCopy EXCEPT !.failed = TRUE]
                   /\ dpc' = "stopping"
                   /\ UNCHANGED svc_running
    /\ UNCHANGED <<services_, running_, shutdown_requested_, run_result,
                   g_shutdown_requested, daemonFrame>>

StartServicesDone_NoReady ==
    /\ dpc = "starting"
    /\ dloc.i > Len(dloc.service_ptrs)
    /\ running_' = TRUE
    /\ dpc' = "loop"
    /\ UNCHANGED <<services_, svc_running, shutdown_requested_, dloc, dlog, run_result,
                   g_shutdown_requested, daemonFrame>>

\* start_services() returns true: run() sets running_ and calls notify_ready()
StartServicesDone ==
    /\ dpc = "starting"
    /\ dloc.i > Len(dloc.service_ptrs)
    /\ running_' = TRUE
    /\ dlog' = Append(dlog, [ev |-> "ready", id |-> 0, ok |-> TRUE])
    /\ dpc' = "loop"
    /\ UNCHANGED <<services_, svc_running, shutdown_requested_, dloc, run_result,
                   g_shutdown_requested, daemonFrame>>

\* the watchdog notifications sent so far
Pings == SelectSeq(dlog, LAMBDA e : e.ev = "watchdog")

EventLoop_IgnoreShutdown ==
    /\ dpc = "loop"
    /\ IF g_shutdown_requested
       THEN /\ g_shutdown_requested' = FALSE
            /\ shutdown_requested_' = TRUE
       ELSE UNCHANGED <<g_shutdown_requested, shutdown_requested_>>
    /\ UNCHANGED <<dlog, dloc, dpc>>
    /\ UNCHANGED <<services_, svc_running, running_, run_result, daemonFrame>>

\* run(): the test of shutdown_requested_, then either notify_stopping() and
\* the entry to stop_services(), or one event_loop(), which turns the signal
\* flag into request_shutdown() and returns, or else ends in notify_watchdog()
EventLoop ==
    /\ dpc = "loop"
    /\ IF shutdown_requested_
       THEN /\ dlog' = Append(dlog, [ev |-> "stopping", id |-> 0, ok |-> TRUE])
            /\ dloc' = StopServicesCopy
            /\ dpc' = "stopping"
            /\ UNCHANGED <<g_shutdown_requested, shutdown_requested_>>
       ELSE IF g_shutdown_requested
            THEN /\ g_shutdown_requested' = FALSE
                 /\ shutdown_requested_' = TRUE
                 /\ UNCHANGED <<dlog, dloc, dpc>>
            ELSE /\ Len(Pings) < MaxPings
                 /\ dlog' = Append(dlog, [ev |-> "watchdog", id |-> 0, ok |-> TRUE])
                 /\ UNCHANGED <<g_shutdown_requested, shutdown_requested_, dloc, dpc>>
    /\ UNCHANGED <<services_, svc_running, running_, run_result, daemonFrame>>

\* stop_services(): stop() on the next service if it is running
StopService ==
    /\ dpc = "stopping"
    /\ dloc.i <= Len(dloc.service_ptrs)
    /\ LET service == dloc.service_ptrs[dloc.i] IN
         IF service.id \in svc_running
         THEN /\ svc_running' = svc_running \ {service.id}
              /\ dlog' = Append(dlog, [ev |-> "stop", id |-> service.id, ok |-> TRUE])
         ELSE UNCHANGED <<svc_running, dlog>>
    /\ dloc' = [dloc EXCEPT !.i = @ + 1]
    /\ UNCHANGED <<services_, running_, shutdown_requested_, dpc, run_result,
                   g_shutdown_requested, daemonFrame>>

\* stop_services() is through: run() returns 1 after a failed start, else 0
RunReturn ==
    /\ dpc = "stopping"
    /\ dloc.i > Len(dloc.service_ptrs)
    /\ IF dloc.failed
       THEN /\ run_result' = 1
            /\ UNCHANGED running_
       ELSE /\ run_result' = 0
            /\ running_' = FALSE
    /\ dpc' = "returned"
    /\ UNCHANGED <<services_, svc_running, shutdown_requested_, dloc, dlog,
                   g_shutdown_requested, daemonFrame>>

InitDaemon ==
    /\ alerts = <<>>
    /\ count = ZeroCount
    /\ stmt_mutex = "free"
    /\ active_alert_keys = {}
    /\ pc = [t \in Threads |-> "idle"]
    /\ loc = [t \in Threads |-> NoLoc]
    /\ started = {}
    /\ createCalls = {}
    /\ createOk = {}
    /\ createFailed = FALSE
    /\ mode = "daemon"
    /\ hist = <<>>
    /\ IoInit

NextDaemon ==
    \/ \E priority \in Priorities : RegisterService(priority)
    \/ RequestShutdown
    \/ SignalShutdown
    \/ Reset
    \/ StartServicesSort
    \/ StartService
    \/ StartServicesDone
    \/ EventLoop
    \/ StopService
    \/ RunReturn

SpecDaemon == InitDaemon /\ [][NextDaemon]_vars

\* the thread in run() is scheduled, and stop() of a service returns
FairDaemon ==
    SpecDaemon /\ WF_vars(EventLoop) /\ WF_vars(StopService) /\ WF_vars(RunReturn)

(***************************************************************************)
(* Daemon: properties                                                      *)
(***************************************************************************)
RECURSIVE Events(_, _)
\* the ids of the events of one kind in q, in order
Events(q, kind) ==
    IF q = <<>> THEN <<>>
    ELSE IF Head(q).ev = kind /\ Head(q).ok
         THEN <<Head(q).id>> \o Events(Tail(q), kind)
         ELSE Events(Tail(q), kind)

\* calls of start(), successful or not, in order
StartCalls == SelectSeq(dlog, LAMBDA e : e.ev = "start")

IsPrefix(p, q) == Len(p) <= Len(q) /\ p = SubSeq(q, 1, Len(p))

PriorityOf(id) ==
    (CHOOSE s \in {services_[i] : i \in DOMAIN services_} : s.id = id).priority

StartFailed == \E i \in DOMAIN dlog : dlog[i].ev = "start" /\ ~dlog[i].ok

\* C19: run() calls start() in non-increasing priority order, and at shutdown
\* calls stop() on the running services in exactly the reverse of the order
\* they were started in
C19_StartByPriorityStopInReverse ==
    /\ \A i, j \in DOMAIN StartCalls :
         i < j => PriorityOf(StartCalls[i].id) >= PriorityOf(StartCalls[j].id)
    /\ ~StartFailed =>
         /\ IsPrefix(Events(dlog, "stop"), Reverse(Events(dlog, "start")))
         /\ dpc = "returned" => Events(dlog, "stop") = Reverse(Events(dlog, "start"))

C19_Witness ==
    /\ dpc = "returned"
    /\ run_result = 0
    /\ Len(Events(dlog, "stop")) = 3
    /\ \E i, j \in DOMAIN services_ : services_[i].priority # services_[j].priority

\* C20: after a start() has failed no further service is started, readiness
\* is never signalled, only services started before are stopped, in reverse
\* start order, and run() returns failure with no service running
C20_FailedStartUnwinds ==
    StartFailed =>
      /\ ~StartCalls[Len(StartCalls)].ok
      /\ \A i \in 1..(Len(StartCalls) - 1) : StartCalls[i].ok
      /\ \A i \in DOMAIN dlog : dlog[i].ev # "ready"
      /\ ~running_
      /\ IsPrefix(Events(dlog, "stop"), Reverse(Events(dlog, "start")))
      /\ dpc = "returned" =>
           /\ run_result = 1
           /\ Events(dlog, "stop") = Reverse(Events(dlog, "start"))
           /\ svc_running = {}

C20_Witness ==
    /\ dpc = "returned"
    /\ StartFailed
    /\ Len(services_) = 3
    /\ Len(StartCalls) = 2
    /\ Len(Events(dlog, "stop")) = 1

\* C21: a shutdown requested while run() is in its event loop leads to run()
\* having stopped every running service, marked the daemon not running and
\* returned 0; and shutdown_requested_, once set, stays set until reset()
C21_ShutdownLeadsToReturn ==
    /\ (dpc = "loop" /\ (shutdown_requested_ \/ g_shutdown_requested))
         ~> (dpc = "returned" /\ run_result = 0 /\ ~running_ /\ svc_running = {})
    /\ [][(shutdown_requested_ /\ ~shutdown_requested_')
            => (dpc \in {"idle", "returned"} /\ dpc' = "idle" /\ services_' = <<>>)]_vars

C21_Witness ==
    /\ dpc = "returned"
    /\ run_result = 0
    /\ shutdown_requested_
    /\ ~g_shutdown_requested
    /\ \E i \in DOMAIN dlog : dlog[i].ev = "stop"
    /\ \E i, j \in DOMAIN dlog :
         i < j /\ dlog[i].ev = "ready" /\ dlog[j].ev = "stopping"

\* positions in dlog of the events of one kind
At(kind) == {i \in DOMAIN dlog : dlog[i].ev = kind}

\* C36: in a run() whose services all started, 'ready' is sent at most once
\* and only after start() of every registered service has succeeded, watchdog
\* pings come only after 'ready' and before 'stopping', 'stopping' is sent at
\* most once and before every stop(), and when run() has returned 0 'ready'
\* and 'stopping' have each been sent exactly once
C36_NotificationOrder ==
    ~StartFailed =>
      /\ Cardinality(At("ready")) <= 1
      /\ Cardinality(At("stopping")) <= 1
      /\ \A r \in At("ready") :
           /\ {dlog[i].id : i \in {j \in At("start") : j < r}}
                = {services_[i].id : i \in DOMAIN services_}
           /\ \A i \in At("start") : i < r
      /\ \A w \in At("watchdog") :
           /\ \E r \in At("ready") : r < w
           /\ \A p \in At("stopping") : w < p
      /\ \A p \in At("stop") : \E q \in At("stopping") : q < p
      /\ (dpc = "returned" /\ run_result = 0) =>
           Cardinality(At("ready")) = 1 /\ Cardinality(At("stopping")) = 1

C36_Witness ==
    /\ dpc = "returned"
    /\ run_result = 0
    /\ Len(Pings) = 2
    /\ Len(Events(dlog, "start")) = 2
    /\ Len(Events(dlog, "stop")) = 2

(***************************************************************************)
(* Alert store: two concurrent callers, one call each                      *)
(***************************************************************************)
\* tables whose rows are all ACTIVE
ActiveTables == {rows \in InitialTables : \A i \in DOMAIN rows : rows[i].status = "ACTIVE"}

InitPairs ==
    /\ alerts \in ActiveTables
    /\ count = LoadInitialCounters(alerts)
    /\ stmt_mutex = "free"
    /\ active_alert_keys = {}
    /\ pc = [t \in Threads |-> "idle"]
    /\ loc = [t \in Threads |-> NoLoc]
    /\ started = {}
    /\ createCalls = {}
    /\ createOk = {}
    /\ createFailed = FALSE
    /\ mode = "pairs"
    /\ hist = <<>>
    /\ IoInit

\* c1 creates an ACTIVE alert or acknowledges row 1; c2 acknowledges all rows
\* or dismisses row 1; each makes one call
NextPairs ==
    \/ /\ loc["c1"].op = "none"
       /\ \/ \E a \in ClientAlerts : a.status = "ACTIVE" /\ CreateCall("c1", a)
          \/ AckCall("c1", 1)
    \/ /\ loc["c2"].op = "none"
       /\ \/ AckAllCall("c2")
          \/ DismissCall("c2", 1)
    \/ \E t \in StoreThreads :
         \/ CreateInsert(t)
         \/ UpdateCountersSev(t)
         \/ UpdateCountersTotal(t)
         \/ AckGet(t)
         \/ AckUpdate(t)
         \/ AckAllUpdate(t)
         \/ AckAllZero(t)
         \/ DismissGet(t)
         \/ DismissUpdate(t)

SpecPairs == InitPairs /\ [][NextPairs]_vars

\* both callers made the named calls and both calls have returned
BothReturned(op1, op2) ==
    /\ \A t \in StoreThreads : pc[t] = "idle" /\ loc[t].ret = "returned"
    /\ loc["c1"].op = op1
    /\ loc["c2"].op = op2

ActiveRows(severity) ==
    Cardinality({i \in DOMAIN alerts :
                   alerts[i].status = "ACTIVE" /\ alerts[i].severity = severity})

\* C34: once a create of an ACTIVE alert and a concurrent acknowledge-all have
\* both returned, each severity counter and the total equal the number of
\* ACTIVE rows
C34_CountersEqualActiveRows ==
    BothReturned("create", "acknowledge_all") =>
      /\ \A s \in Severities : count[CounterOf(s)] = ActiveRows(s)
      /\ count.total = Cardinality({i \in DOMAIN alerts : alerts[i].status = "ACTIVE"})

\* outcomes of acknowledge(1) and dismiss(1) on one ACTIVE row when one call
\* runs after the other: final status, acknowledge's result, dismiss's result
\* and the count of the row's severity
SerialOutcomes ==
    {<<"DISMISSED", TRUE, TRUE, 0>>, <<"DISMISSED", FALSE, TRUE, 0>>,
     <<"ACKNOWLEDGED", TRUE, FALSE, 0>>, <<"ACTIVE", FALSE, FALSE, 1>>}

\* C35: after concurrent acknowledge(id) and dismiss(id) on one ACTIVE alert
\* the severity counter and the total were decremented at most once in total
\* and the final status and the results are those of the two calls run one
\* after the other
C35_AckDismissSerialized ==
    (BothReturned("acknowledge", "dismiss") /\ Len(alerts) = 1) =>
      /\ count.total = count[CounterOf(alerts[1].severity)]
      /\ <<alerts[1].status, loc["c1"].res, loc["c2"].res, count.total>> \in SerialOutcomes

====
